---- MODULE Spec2Model ----
(***************************************************************************)
(* TokenOptimizer: the orchestrator (src/orchestrator/mod.rs) driving the  *)
(* Venice.ai provider with its credit tracker (src/api/venice.rs) and a    *)
(* fallback provider.  Several callers run execute concurrently on one     *)
(* orchestrator; every lock acquisition or await of the code is one step.  *)
(*                                                                         *)
(* Text is modelled as a sequence of fragments (strings); concatenation is *)
(* \o and str.contains(w) looks for the fragment w.  Balances are in       *)
(* hundredths (0.10 is 10).                                                *)
(***************************************************************************)
EXTENDS Integers, Sequences, FiniteSets, TLC

\* ---------------------------------------------------------------- bounds
\* successful primary responses explored (metrics.request_count)
MaxRequests == 2
\* byte chunks an HTTP body yields before it ends or fails
MaxChunks == 4

\* ------------------------------------------------------ program constants
\* VeniceConfig::default, in hundredths
\* context items of a request handed to the cache optimizer
MaxContext == 3

\* calls made on a cache tracker in use
MaxCalls == 2
\* turns recorded in a session
MaxTurns == 4
\* calls the threads make on a shared tracker
MaxThreadCalls == 2

MIN_CACHE_TOKENS == 1024
CHANNEL_CAPACITY == 64
min_balance_usd == 10
min_balance_diem == 10
\* OrchestratorConfig::default, in hundredths
venice_min_balance == 10
max_retries == 2
allow_venice_after_fallback == FALSE
\* retry_after_secs of a 429 without exhaustion markers
RATE_LIMIT_RETRY_SECS == 60
\* sleep before retrying any other error
ERROR_RETRY_SECS == 1

\* ------------------------------------------------------------ input sets
Callers == {"c1", "c2"}
\* the threads sharing one CacheTracker
Threads == {"t1", "t2"}
\* values a balance header or a field of the probe's JSON can carry
BalanceValues == {0, 10}
\* a header is an Option: {} when absent or unparsable, {v} when it parses to v
HeaderValues == {{}} \cup {{v} : v \in BalanceValues}
\* the responses a request can get: status, body text, whether a 200's JSON
\* parses; a 429 and another failed response come with or without the markers
HttpResponses ==
    {[status |-> 200, text |-> <<>>, json_ok |-> j] : j \in BOOLEAN}
    \cup {[status |-> 429, text |-> t, json_ok |-> FALSE] :
            t \in {<<>>, <<"insufficient">>, <<"quota">>, <<"balance">>,
                   <<"resource ", "exhausted">>}}
    \cup {[status |-> st, text |-> t, json_ok |-> FALSE] :
            st \in {401, 500}, t \in {<<>>, <<"quota">>, <<"resource ", "exhausted">>}}
Tasks == {<<"fix the bug">>}

\* ------------------------------------------------------------------ text
Contains(text, w) == \E i \in 1..Len(text) : text[i] = w

\* ---------------------------------------------------------------- values
None == [kind |-> "None"]
Ok(r) == [kind |-> "Ok", response |-> r]
Err(e) == [kind |-> "Err", error |-> e]

Provider(msg) == [kind |-> "Provider", msg |-> msg]
RateLimited(secs) == [kind |-> "RateLimited", retry_after_secs |-> secs]
Http == [kind |-> "Http"]

ExhaustedMsg == <<"Venice credits ", "exhausted", " - fallback required">>
NoProvidersMsg == <<"No providers available">>
FallbackUnavailableMsg == <<"Fallback provider '", "fallback", "' unavailable">>

VeniceResponse == [content |-> <<"venice answer">>, model |-> "venice"]

\* VeniceBalance::default(); last_updated is TRUE for Some(instant)
DefaultBalance ==
    [balance_usd |-> 0, balance_diem |-> 0, exhausted |-> FALSE, last_updated |-> FALSE]

\* CacheConfig::default(); tokens_per_char in hundredths
DefaultCacheConfig ==
    [min_cache_tokens |-> MIN_CACHE_TOKENS, max_breakpoints |-> 4,
     auto_reorder |-> TRUE, tokens_per_char |-> 25]

VARIABLES
    state,              \* Orchestrator.state
    session_context,    \* Orchestrator.session_context
    request_count,      \* Orchestrator.metrics: TokenMetrics.request_count
    preserve_context,   \* OrchestratorConfig.preserve_context
    balance,            \* VeniceProvider.balance
    credits_exhausted,  \* VeniceProvider.credits_exhausted
    probe_low,          \* fetch_balance: its threshold test is true and its store is pending
    pc,                 \* each caller's position in execute
    task,               \* the task of the request passed to execute
    request,            \* the task of the request in hand (request, handoff_request)
    retries,            \* try_venice_with_fallback: the local counter
    sleep_secs,         \* the duration of the sleep in progress
    balance_snapshot,   \* try_venice_with_fallback: the local `balance`
    result,             \* what the last execute returned
    via,                \* the pattern matched last: of execute's match or of the loop's
    venice_calls,       \* send_request calls made by the retry loop in progress
    fallback_calls,     \* fallback.execute calls made by the current execute
    stream_pc,          \* the position of a direct send_streaming call
    stream_http,        \* whether that call has issued its HTTP request
    stream_result,      \* what the last send_streaming returned
    sse_format,         \* send_streaming: the dialect of the response stream
    body,               \* the HTTP body: "open", "ended" or "failed"
    body_count,         \* byte chunks the body has yielded
    buffer,             \* the producer task's `buffer`
    producer_pc,        \* the producer task's position
    sending,            \* the chunk of the tx.send in progress, if any
    channel,            \* mpsc::channel: the chunks queued
    received,           \* the chunks the consumer has taken from rx
    rx_open,            \* the consumer still holds the receiver
    rx_closed,          \* the consumer's recv() has returned None
    config,             \* CacheOptimizer.config
    api_request,        \* optimize_request: its argument
    optimized,          \* optimize_request: what it returned, if called
    previous,           \* the optimizer's call before this one: its argument and result
    entries,            \* CacheTracker.entries
    metrics,            \* CacheTracker.metrics
    max_entries,        \* CacheTracker.max_entries
    now,                \* the last reading of Instant::now()
    cache_status,       \* the tracker's last call and what it returned
    observed,           \* the results of the check calls made, counted by kind
    history,            \* Session.history
    max_history,        \* Session.config.max_history
    session_tokens,     \* Session.total_tokens
    session_cost,       \* Session.total_cost, in millionths of a dollar
    recorded,           \* the turns passed to record_turn, in order
    counters,           \* the counters a TokenUsage is built from
    token_usage,        \* the TokenUsage built, or the panic of the build
    thread_pc,          \* each thread's position in its call on the shared tracker
    thread_call,        \* the call a thread is making, if any: method and arguments
    entries_lock,       \* the thread holding the Mutex of CacheTracker.entries, if any
    metrics_lock,       \* the thread holding the Mutex of CacheTracker.metrics, if any
    calls_started       \* calls the threads have made on the shared tracker

vars == <<state, session_context, request_count, preserve_context, balance,
          credits_exhausted, probe_low, pc, task, request, retries, sleep_secs,
          balance_snapshot, result, via, venice_calls, fallback_calls,
          stream_pc, stream_http, stream_result,
          sse_format, body, body_count, buffer, producer_pc, sending, channel,
          received, rx_open, rx_closed,
          config, api_request, optimized, previous,
          entries, metrics, max_entries, now, cache_status, observed,
          history, max_history, session_tokens, session_cost, recorded,
          counters, token_usage,
          thread_pc, thread_call, entries_lock, metrics_lock, calls_started>>

callerVars == <<pc, task, request, retries, sleep_secs, balance_snapshot, result,
                via, venice_calls, fallback_calls>>
orchVars == <<state, session_context, request_count>>
veniceVars == <<balance, credits_exhausted>>
streamVars == <<stream_pc, stream_http, stream_result>>
producerVars == <<sse_format, body, body_count, buffer, producer_pc, sending,
                  channel, received, rx_open, rx_closed>>
optimizerVars == <<config, api_request, optimized, previous>>
trackerVars == <<entries, metrics, max_entries, now, cache_status, observed>>
sessionVars == <<history, max_history, session_tokens, session_cost, recorded>>
usageVars == <<counters, token_usage>>
lockVars == <<thread_pc, thread_call, entries_lock, metrics_lock, calls_started>>
\* the state of the tracker, the session and the usage under construction
libraryVars == <<trackerVars, sessionVars, usageVars, lockVars>>
\* the state of the components the orchestrator's calls do not touch
componentVars == <<producerVars, optimizerVars, libraryVars>>
\* the state of the orchestrator and of the primary's credit tracker
serviceVars == <<orchVars, veniceVars, streamVars, callerVars, preserve_context, probe_low>>

\* ------------------------------------------------------- credit tracker
\* a guard that reads the balance record's field instead of the atomic flag
is_exhausted_from_record == balance.exhausted

is_exhausted == credits_exhausted

get_balance == balance

\* a threshold test that one low balance satisfies
BelowMinimumEither(b) ==
    b.balance_usd < min_balance_usd \/ b.balance_diem < min_balance_diem

\* the threshold test of fetch_balance and update_balance_from_headers
BelowMinimum(b) ==
    b.balance_usd < min_balance_usd /\ b.balance_diem < min_balance_diem

\* update_balance_from_headers: the fields after the headers are applied
ScrapedFields(b, usd, diem) ==
    LET b1 == IF usd /= {} THEN [b EXCEPT !.balance_usd = CHOOSE v \in usd : TRUE] ELSE b
        b2 == IF diem /= {} THEN [b1 EXCEPT !.balance_diem = CHOOSE v \in diem : TRUE] ELSE b1
    IN [b2 EXCEPT !.last_updated = TRUE]

\* update_balance_from_headers: the balance record it leaves
ScrapedBalance(b, usd, diem) ==
    IF BelowMinimum(ScrapedFields(b, usd, diem))
    THEN [ScrapedFields(b, usd, diem) EXCEPT !.exhausted = TRUE]
    ELSE ScrapedFields(b, usd, diem)

\* a scrape that stores the outcome of the threshold test
ScrapedFlagOverwrite(flag, b, usd, diem) == BelowMinimum(ScrapedFields(b, usd, diem))

\* update_balance_from_headers: the atomic flag it leaves
ScrapedFlag(flag, b, usd, diem) ==
    IF BelowMinimum(ScrapedFields(b, usd, diem)) THEN TRUE ELSE flag

\* fetch_balance: the record built from the probe's JSON
ProbedBalance(usd, diem) ==
    [balance_usd |-> usd, balance_diem |-> diem, exhausted |-> FALSE, last_updated |-> TRUE]

\* the 429 body test of send_request and send_streaming
HasExhaustionMarker(text) ==
    Contains(text, "insufficient") \/ Contains(text, "quota") \/ Contains(text, "balance")

\* format!("{}: {}", status, error_text)
StatusMsg(status, text) == <<ToString(status), ": ">> \o text

\* send_request: what a response of this status and body returns
SendRequestResult(status, text, json_ok) ==
    IF status = 200
    THEN IF json_ok THEN Ok(VeniceResponse) ELSE Err(Http)
    ELSE IF status = 429
         THEN IF HasExhaustionMarker(text)
              THEN Err(Provider(ExhaustedMsg))
              ELSE Err(RateLimited(RATE_LIMIT_RETRY_SECS))
         ELSE Err(Provider(StatusMsg(status, text)))

\* send_request: the atomic flag after the status match
FlagAfterStatus(flag, status, text) ==
    IF status = 429 /\ HasExhaustionMarker(text) THEN TRUE ELSE flag

\* ------------------------------ Orchestrator::try_venice_with_fallback
\* msg.contains("exhausted"): the guard of the Exhausted arm
IsExhaustedError(r) ==
    r.kind = "Err" /\ r.error.kind = "Provider" /\ Contains(r.error.msg, "exhausted")

IsRateLimited(r) ==
    r.kind = "Err" /\ r.error.kind = "RateLimited"

\* an off-by-one retry test
RetriesRemainInclusive(n) == n <= max_retries

\* retries < self.config.max_retries
RetriesRemain(n) == n < max_retries

\* a match without the Exhausted arm: the error takes the catch-all arm
MatchArmNoExhaustedArm(r, n) ==
    IF r.kind = "Ok" THEN "read_balance"
    ELSE IF IsRateLimited(r)
         THEN IF RetriesRemain(n) THEN "sleep" ELSE "execute_fallback"
         ELSE IF RetriesRemain(n) THEN "sleep" ELSE "idle"

\* a match whose rate-limit arm hands off as the Exhausted arm does
MatchArmRateLimitHandoff(r, n) ==
    IF r.kind = "Ok" THEN "read_balance"
    ELSE IF IsExhaustedError(r) THEN "switch"
    ELSE IF IsRateLimited(r)
         THEN IF RetriesRemain(n) THEN "sleep" ELSE "switch"
         ELSE IF RetriesRemain(n) THEN "sleep" ELSE "idle"

\* a match whose last arm falls back as the rate-limit arm does
MatchArmErrorFallback(r, n) ==
    IF r.kind = "Ok" THEN "read_balance"
    ELSE IF IsExhaustedError(r) THEN "switch"
    ELSE IF RetriesRemain(n) THEN "sleep" ELSE "execute_fallback"

\* the arm of the match that takes the result r of send_request with n retries
\* used: the position of the arm's first access to shared state, or "idle"
\* when the arm returns
MatchArm(r, n) ==
    IF r.kind = "Ok" THEN "read_balance"
    ELSE IF IsExhaustedError(r) THEN "switch"
    ELSE IF IsRateLimited(r)
         THEN IF RetriesRemain(n) THEN "sleep" ELSE "execute_fallback"
         ELSE IF RetriesRemain(n) THEN "sleep" ELSE "idle"

\* the pattern of the match that the result r of send_request fits
MatchPattern(r) ==
    IF r.kind = "Ok" THEN "ok"
    ELSE IF IsExhaustedError(r) THEN "exhausted"
    ELSE IF IsRateLimited(r) THEN "rate_limit"
    ELSE "error"

\* send_request has returned r to caller c, its calls-th call of this execute:
\* the match up to the arm's first access to shared state.  The loop's locals
\* are dropped when the arm leaves the loop, all locals when it returns.
\* tokio::time::sleep(..) takes retry_after_secs for a rate limit, 1 for
\* another error.
Match(c, r, calls) ==
    /\ pc' = [pc EXCEPT ![c] = MatchArm(r, retries[c])]
    /\ retries' = [retries EXCEPT ![c] = IF MatchArm(r, @) = "sleep" THEN @ + 1 ELSE 0]
    /\ venice_calls' = [venice_calls EXCEPT ![c] =
                          IF MatchArm(r, retries[c]) = "sleep" THEN calls ELSE 0]
    /\ sleep_secs' = [sleep_secs EXCEPT ![c] =
                        IF MatchArm(r, retries[c]) /= "sleep" THEN 0
                        ELSE IF IsRateLimited(r) THEN r.error.retry_after_secs
                        ELSE ERROR_RETRY_SECS]
    /\ via' = [via EXCEPT ![c] = MatchPattern(r)]
    /\ result' = [result EXCEPT ![c] =
                    IF MatchArm(r, retries[c]) = "idle" THEN r ELSE @]
    /\ task' = [task EXCEPT ![c] = IF MatchArm(r, retries[c]) = "idle" THEN <<>> ELSE @]
    /\ request' = [request EXCEPT ![c] =
                     IF MatchArm(r, retries[c]) = "idle" THEN <<>> ELSE @]

\* ------------------------------------------------------------------ Init
\* Orchestrator::new over VeniceProvider::new, no call made yet
ServiceInit ==
    /\ state = "UsingVenice"
    /\ session_context = <<>>
    /\ request_count = 0
    /\ preserve_context \in BOOLEAN
    /\ balance = DefaultBalance
    /\ credits_exhausted = FALSE
    /\ probe_low = FALSE
    /\ pc = [c \in Callers |-> "idle"]
    /\ task = [c \in Callers |-> <<>>]
    /\ request = [c \in Callers |-> <<>>]
    /\ retries = [c \in Callers |-> 0]
    /\ sleep_secs = [c \in Callers |-> 0]
    /\ balance_snapshot = [c \in Callers |-> DefaultBalance]
    /\ result = [c \in Callers |-> None]
    /\ via = [c \in Callers |-> "none"]
    /\ venice_calls = [c \in Callers |-> 0]
    /\ fallback_calls = [c \in Callers |-> 0]
    /\ stream_pc = "idle"
    /\ stream_http = FALSE
    /\ stream_result = None

\* no response stream has been opened
NoStream ==
    /\ sse_format = "OpenAI"
    /\ body = "open"
    /\ body_count = 0
    /\ buffer = <<>>
    /\ producer_pc = "unspawned"
    /\ sending = {}
    /\ channel = <<>>
    /\ received = <<>>
    /\ rx_open = FALSE
    /\ rx_closed = FALSE

\* CacheConfig::default(), optimize_request not called
NoOptimizer ==
    /\ config = DefaultCacheConfig
    /\ api_request = [system |-> {}, messages |-> <<>>, context |-> <<>>, task |-> 0]
    /\ optimized = {}
    /\ previous = {}

\* CacheMetrics::default(); hit_rate is the pair <<numerator, denominator>>
DefaultCacheMetrics ==
    [cache_hits |-> 0, cache_misses |-> 0, cache_writes |-> 0, cached_tokens |-> 0,
     uncached_tokens |-> 0, estimated_savings |-> 0, hit_rate |-> <<0, 1>>]

\* CacheTracker::default(), no call made
NoTracker ==
    /\ entries = <<>>
    /\ metrics = DefaultCacheMetrics
    /\ max_entries = 1000
    /\ now = 0
    /\ cache_status = {}
    /\ observed = [write |-> 0, hit |-> 0, stale |-> 0, miss |-> 0, hit_tokens |-> 0]

\* Session::new with SessionConfig::default()
NoSession ==
    /\ history = <<>>
    /\ max_history = 20
    /\ session_tokens = 0
    /\ session_cost = 0
    /\ recorded = <<>>

\* no TokenUsage under construction
NoUsage ==
    /\ counters = {}
    /\ token_usage = {}

\* no thread is calling the tracker
NoLocks ==
    /\ thread_pc = [t \in Threads |-> "idle"]
    /\ thread_call = [t \in Threads |-> {}]
    /\ entries_lock = {}
    /\ metrics_lock = {}
    /\ calls_started = 0

NoLibrary == NoTracker /\ NoSession /\ NoUsage /\ NoLocks

Init == ServiceInit /\ NoStream /\ NoOptimizer /\ NoLibrary

\* ------------------------------------------------- Orchestrator::execute
\* a routing that sends every state but Unavailable to the primary
RoutePrimaryFirst(s) ==
    IF s \in {"UsingVenice", "VeniceLow", "UsingFallback"} THEN "send_request"
    ELSE "idle"

\* a routing that tries the fallback again from Unavailable
RouteRetryUnavailable(s) ==
    IF s \in {"UsingVenice", "VeniceLow"} THEN "send_request"
    ELSE "execute_fallback"

\* the match on the state snapshot: where execute goes next
Route(s) ==
    IF s \in {"UsingVenice", "VeniceLow"} THEN "send_request"
    ELSE IF s = "UsingFallback" THEN "execute_fallback"
    ELSE "idle"

\* execute: snapshot the state and dispatch on it
Execute(c) ==
    /\ pc[c] = "idle"
    /\ request_count < MaxRequests
    /\ pc' = [pc EXCEPT ![c] = Route(state)]
    /\ \E t \in Tasks :
          /\ task' = [task EXCEPT ![c] = IF Route(state) = "idle" THEN <<>> ELSE t]
          /\ request' = [request EXCEPT ![c] = IF Route(state) = "idle" THEN <<>> ELSE t]
    /\ result' = [result EXCEPT ![c] =
                    IF Route(state) = "idle" THEN Err(Provider(NoProvidersMsg)) ELSE None]
    /\ via' = [via EXCEPT ![c] =
                 IF Route(state) = "execute_fallback" THEN "execute" ELSE "none"]
    /\ retries' = [retries EXCEPT ![c] = 0]
    /\ venice_calls' = [venice_calls EXCEPT ![c] = 0]
    /\ fallback_calls' = [fallback_calls EXCEPT ![c] = 0]
    /\ UNCHANGED <<componentVars, streamVars, orchVars, veniceVars, preserve_context, probe_low, sleep_secs,
                   balance_snapshot>>

\* ---------------------------------------- VeniceProvider::send_request
\* the is_exhausted() guard at the top of send_request
SendRequestCheck(c) ==
    /\ pc[c] = "send_request"
    /\ IF is_exhausted
       THEN Match(c, Err(Provider(ExhaustedMsg)), venice_calls[c] + 1)
       ELSE /\ pc' = [pc EXCEPT ![c] = "http"]
            /\ venice_calls' = [venice_calls EXCEPT ![c] = @ + 1]
            /\ UNCHANGED <<task, request, retries, sleep_secs, result, via>>
    /\ UNCHANGED <<componentVars, streamVars, orchVars, veniceVars, preserve_context, probe_low, balance_snapshot,
                   fallback_calls>>

\* client.post(..).send().await? fails: send_request returns the reqwest error
HttpFail(c) ==
    /\ pc[c] = "http"
    /\ Match(c, Err(Http), venice_calls[c])
    /\ UNCHANGED <<componentVars, streamVars, orchVars, veniceVars, preserve_context, probe_low, balance_snapshot,
                   fallback_calls>>

\* a response arrives and update_balance_from_headers scrapes it
HttpRespond(c) ==
    /\ pc[c] = "http"
    /\ \E usd \in HeaderValues, diem \in HeaderValues :
          /\ balance' = ScrapedBalance(balance, usd, diem)
          /\ credits_exhausted' = ScrapedFlag(credits_exhausted, balance, usd, diem)
    /\ pc' = [pc EXCEPT ![c] = "body"]
    /\ UNCHANGED <<componentVars, streamVars, orchVars, preserve_context, probe_low, task, request, retries,
                   sleep_secs, balance_snapshot, result, via, venice_calls,
                   fallback_calls>>

\* the status match of send_request on the response r, and its return
ReadBodyResponse(c, r) ==
    /\ credits_exhausted' = FlagAfterStatus(credits_exhausted, r.status, r.text)
    /\ Match(c, SendRequestResult(r.status, r.text, r.json_ok), venice_calls[c])

\* the status match of send_request, reading the body, and its return
ReadBody(c) ==
    /\ pc[c] = "body"
    /\ \E r \in HttpResponses : ReadBodyResponse(c, r)
    /\ UNCHANGED <<componentVars, streamVars, orchVars, balance, preserve_context, probe_low, balance_snapshot,
                   fallback_calls>>

\* tokio::time::sleep returns and the loop continues
Sleep(c) ==
    /\ pc[c] = "sleep"
    /\ pc' = [pc EXCEPT ![c] = "send_request"]
    /\ sleep_secs' = [sleep_secs EXCEPT ![c] = 0]
    /\ via' = [via EXCEPT ![c] = "none"]
    /\ UNCHANGED <<componentVars, streamVars, orchVars, veniceVars, preserve_context, probe_low, task, request,
                   retries, balance_snapshot, result, venice_calls, fallback_calls>>

\* --------------------- try_venice_with_fallback: the Ok and Exhausted arms
\* a test that one low balance satisfies
BalanceLowEither(b) ==
    b.balance_usd < venice_min_balance \/ b.balance_diem < venice_min_balance

\* both balances below venice_min_balance
BalanceLow(b) ==
    b.balance_usd < venice_min_balance /\ b.balance_diem < venice_min_balance

\* Ok arm: self.venice.get_balance().await
ReadBalance(c) ==
    /\ pc[c] = "read_balance"
    /\ balance_snapshot' = [balance_snapshot EXCEPT ![c] = get_balance]
    /\ pc' = [pc EXCEPT ![c] = "low_check"]
    /\ UNCHANGED <<componentVars, streamVars, orchVars, veniceVars, preserve_context, probe_low, task, request,
                   retries, sleep_secs, result, via, venice_calls, fallback_calls>>

\* Ok arm: the low-balance transition, then metrics.record_request
LowCheck(c) ==
    /\ pc[c] = "low_check"
    /\ state' = IF BalanceLow(balance_snapshot[c]) THEN "VeniceLow" ELSE state
    /\ request_count' = request_count + 1
    /\ balance_snapshot' = [balance_snapshot EXCEPT ![c] = DefaultBalance]
    /\ pc' = [pc EXCEPT ![c] = "store_context"]
    /\ UNCHANGED <<componentVars, streamVars, session_context, veniceVars, preserve_context, probe_low, task,
                   request, retries, sleep_secs, result, via, venice_calls,
                   fallback_calls>>

\* execute returns r to caller c; its locals go out of scope
Return(c, r) ==
    /\ result' = [result EXCEPT ![c] = r]
    /\ pc' = [pc EXCEPT ![c] = "idle"]
    /\ task' = [task EXCEPT ![c] = <<>>]
    /\ request' = [request EXCEPT ![c] = <<>>]
    /\ retries' = [retries EXCEPT ![c] = 0]
    /\ via' = [via EXCEPT ![c] = "none"]
    /\ venice_calls' = [venice_calls EXCEPT ![c] = 0]
    /\ fallback_calls' = [fallback_calls EXCEPT ![c] = 0]

\* Ok arm: push the response content, return Ok(response)
StoreContext(c) ==
    /\ pc[c] = "store_context"
    /\ session_context' = IF preserve_context
                           THEN Append(session_context, VeniceResponse.content)
                           ELSE session_context
    /\ Return(c, Ok(VeniceResponse))
    /\ UNCHANGED <<componentVars, streamVars, state, request_count, veniceVars, preserve_context, probe_low,
                   sleep_secs, balance_snapshot>>

\* Exhausted arm: *self.state.write().await = UsingFallback
SwitchToFallback(c) ==
    /\ pc[c] = "switch"
    /\ state' = "UsingFallback"
    /\ pc' = [pc EXCEPT ![c] = "handoff"]
    /\ UNCHANGED <<componentVars, streamVars, session_context, request_count, veniceVars, preserve_context,
                   probe_low, task, request, retries, sleep_secs, balance_snapshot,
                   result, via, venice_calls, fallback_calls>>

\* ------------------------- Orchestrator::execute_fallback_with_handoff
\* a note written whatever the history holds
HandoffNoteAlways(session_history) ==
    IF preserve_context
    THEN <<"\n\n[Session handoff from Venice.ai - ", ToString(Len(session_history)),
           " previous responses in context]\n">>
    ELSE <<>>

HandoffNote(session_history) ==
    IF preserve_context /\ session_history /= <<>>
    THEN <<"\n\n[Session handoff from Venice.ai - ", ToString(Len(session_history)),
           " previous responses in context]\n">>
    ELSE <<>>

\* read the session context, build handoff_request: its task is
\* format!("{}{}", handoff_note, handoff_request.task) when the note is not empty
Handoff(c) ==
    /\ pc[c] = "handoff"
    /\ request' = [request EXCEPT ![c] = HandoffNote(session_context) \o @]
    /\ pc' = [pc EXCEPT ![c] = "execute_fallback"]
    /\ via' = [via EXCEPT ![c] = "handoff"]
    /\ UNCHANGED <<componentVars, streamVars, orchVars, veniceVars, preserve_context, probe_low, task, retries,
                   sleep_secs, balance_snapshot, result, venice_calls, fallback_calls>>

\* ---------------------------------------- Orchestrator::execute_fallback
\* is_available() answered false: Unavailable, and the error is returned
FallbackUnavailable(c) ==
    /\ pc[c] = "execute_fallback"
    /\ state' = "Unavailable"
    /\ Return(c, Err(Provider(FallbackUnavailableMsg)))
    /\ UNCHANGED <<componentVars, streamVars, session_context, request_count, veniceVars, preserve_context,
                   probe_low, sleep_secs, balance_snapshot>>

\* is_available() answered true: fallback.execute(request) is called
FallbackCall(c) ==
    /\ pc[c] = "execute_fallback"
    /\ fallback_calls' = [fallback_calls EXCEPT ![c] = @ + 1]
    /\ pc' = [pc EXCEPT ![c] = "fallback_execute"]
    /\ UNCHANGED <<componentVars, streamVars, orchVars, veniceVars, preserve_context, probe_low, task, request,
                   retries, sleep_secs, balance_snapshot, result, via, venice_calls>>

\* what fallback.execute can return
FallbackResults ==
    {Ok([content |-> <<"fallback answer">>, model |-> "fallback"]),
     Err(Provider(<<"Claude API error: ">>))}

\* a return from the fallback that records the request in the metrics
FallbackReturnRecording(c) ==
    /\ pc[c] = "fallback_execute"
    /\ \E r \in FallbackResults : Return(c, r)
    /\ request_count' = request_count + 1
    /\ UNCHANGED <<componentVars, streamVars, state, session_context, veniceVars,
                   preserve_context, probe_low, sleep_secs, balance_snapshot>>

\* fallback.execute returns; its result is execute's result
FallbackReturn(c) ==
    /\ pc[c] = "fallback_execute"
    /\ \E r \in FallbackResults : Return(c, r)
    /\ UNCHANGED <<componentVars, streamVars, orchVars, veniceVars, preserve_context, probe_low, sleep_secs,
                   balance_snapshot>>

\* ------------------------- Orchestrator::force_fallback, reset_to_venice
ForceFallback ==
    /\ state' = "UsingFallback"
    /\ UNCHANGED <<componentVars, streamVars, session_context, request_count, veniceVars, preserve_context,
                   probe_low, callerVars>>

\* reset_to_venice: UsingVenice unless the credits are exhausted
ResetToVenice ==
    /\ state' = IF ~is_exhausted THEN "UsingVenice" ELSE state
    /\ UNCHANGED <<componentVars, streamVars, session_context, request_count, veniceVars, preserve_context,
                   probe_low, callerVars>>

\* --------------------------------------- VeniceProvider::fetch_balance
\* the probe answers with success: the stored balance is overwritten; the
\* threshold test on the local copy follows, its store being a later step
FetchBalance ==
    /\ ~probe_low
    /\ \E usd \in BalanceValues, diem \in BalanceValues :
          /\ balance' = ProbedBalance(usd, diem)
          /\ probe_low' = BelowMinimum(ProbedBalance(usd, diem))
    /\ UNCHANGED <<componentVars, streamVars, orchVars, credits_exhausted, preserve_context, callerVars>>

\* fetch_balance: self.credits_exhausted.store(true)
FetchBalanceStore ==
    /\ probe_low
    /\ credits_exhausted' = TRUE
    /\ probe_low' = FALSE
    /\ UNCHANGED <<componentVars, streamVars, orchVars, balance, preserve_context, callerVars>>

\* -------------------------------------- VeniceProvider::send_streaming
\* send_streaming: what a response of this status and body returns; Ok holds
\* the receiver of mpsc::channel(64), the producer task being spawned
SendStreamingResult(status, text) ==
    IF status = 200 THEN Ok([channel |-> "rx"])
    ELSE IF status = 429 /\ HasExhaustionMarker(text)
         THEN Err(Provider(ExhaustedMsg))
         ELSE Err(Provider(StatusMsg(status, text)))

\* the is_exhausted() guard at the top of send_streaming
SendStreaming ==
    /\ stream_pc = "idle"
    /\ IF is_exhausted
       THEN /\ stream_result' = Err(Provider(ExhaustedMsg))
            /\ stream_pc' = "idle"
            /\ stream_http' = FALSE
       ELSE /\ stream_result' = None
            /\ stream_pc' = "http"
            /\ stream_http' = TRUE
    /\ UNCHANGED <<componentVars, orchVars, veniceVars, preserve_context, probe_low, callerVars>>

\* client.post(..).send().await? fails
StreamHttpFail ==
    /\ stream_pc = "http"
    /\ stream_result' = Err(Http)
    /\ stream_pc' = "idle"
    /\ UNCHANGED <<componentVars, stream_http, orchVars, veniceVars, preserve_context, probe_low, callerVars>>

\* a response arrives and update_balance_from_headers scrapes it
StreamHttpRespond ==
    /\ stream_pc = "http"
    /\ \E usd \in HeaderValues, diem \in HeaderValues :
          /\ balance' = ScrapedBalance(balance, usd, diem)
          /\ credits_exhausted' = ScrapedFlag(credits_exhausted, balance, usd, diem)
    /\ stream_pc' = "status"
    /\ UNCHANGED <<componentVars, orchVars, preserve_context, probe_low, callerVars, stream_http,
                   stream_result>>

\* the status test of send_streaming on the response r
StreamStatusResponse(r) ==
    /\ credits_exhausted' = FlagAfterStatus(credits_exhausted, r.status, r.text)
    /\ stream_result' = SendStreamingResult(r.status, r.text)

\* the status test of send_streaming and its return
StreamStatus ==
    /\ stream_pc = "status"
    /\ \E r \in HttpResponses : StreamStatusResponse(r)
    /\ stream_pc' = "idle"
    /\ UNCHANGED <<componentVars, orchVars, balance, preserve_context, probe_low, callerVars,
                   stream_http>>

\* ------------------------------------------------------------ api/sse.rs
\* Text is a sequence of pieces; "\n" is the newline, Whitespace the pieces
\* trim() removes.
Whitespace == {" ", "\r"}

SseFormat == {"OpenAI", "Anthropic", "Ollama"}

\* TokenUsage::new and TokenUsage::default(), on the counters of a stream
\* frame (their sum is far below 2^32)
TokenUsageNew(prompt_tokens, completion_tokens) ==
    [prompt_tokens |-> prompt_tokens, completion_tokens |-> completion_tokens,
     total_tokens |-> prompt_tokens + completion_tokens]
TokenUsageDefault ==
    [prompt_tokens |-> 0, completion_tokens |-> 0, total_tokens |-> 0]

\* StreamChunk
TextDelta(text) == [kind |-> "TextDelta", text |-> text, usage |-> TokenUsageDefault]
Done(usage) == [kind |-> "Done", text |-> "", usage |-> usage]
Error(msg) == [kind |-> "Error", text |-> msg, usage |-> TokenUsageDefault]

RECURSIVE TrimStart(_)
TrimStart(text) ==
    IF text /= <<>> /\ Head(text) \in Whitespace THEN TrimStart(Tail(text)) ELSE text

RECURSIVE TrimEnd(_)
TrimEnd(text) ==
    IF text /= <<>> /\ text[Len(text)] \in Whitespace
    THEN TrimEnd(SubSeq(text, 1, Len(text) - 1))
    ELSE text

\* str::trim
Trim(text) == TrimEnd(TrimStart(text))

\* a JSON value with none of the members the parsers read; a member is {} when
\* absent and {v} when present
JsonObject ==
    [content |-> {}, finish_reason |-> {}, has_usage |-> FALSE,
     prompt_tokens |-> {}, completion_tokens |-> {},
     input_tokens |-> {}, output_tokens |-> {},
     type |-> {}, delta_text |-> {}, error_message |-> {},
     message_content |-> {}, response |-> {}, done |-> {},
     prompt_eval_count |-> {}, eval_count |-> {}]

\* the JSON documents of the modelled streams
OpenAIDelta == "{\"choices\":[{\"delta\":{\"content\":\"Hello\"}}]}"
OpenAIFinish ==
    "{\"choices\":[{\"delta\":{},\"finish_reason\":\"stop\"}],\"usage\":{\"prompt_tokens\":10,\"completion_tokens\":20}}"
AnthropicDelta == "{\"type\":\"content_block_delta\",\"delta\":{\"text\":\"world\"}}"
AnthropicMessageDelta == "{\"type\":\"message_delta\",\"usage\":{\"output_tokens\":20}}"
AnthropicStop == "{\"type\":\"message_stop\"}"
AnthropicError == "{\"type\":\"error\",\"error\":{\"message\":\"Overloaded\"}}"
AnthropicPing == "{\"type\":\"ping\"}"
OllamaMessage == "{\"message\":{\"content\":\"Hi\"},\"done\":false}"
OllamaDone == "{\"done\":true,\"prompt_eval_count\":10,\"eval_count\":20}"
Malformed == "{\"choices\":[{\"del"

\* serde_json: the value each document parses to
JsonDocuments ==
    (OpenAIDelta :> [JsonObject EXCEPT !.content = {"Hello"}])
    @@ (OpenAIFinish :> [JsonObject EXCEPT !.finish_reason = {"stop"}, !.has_usage = TRUE,
                                           !.prompt_tokens = {10},
                                           !.completion_tokens = {20}])
    @@ (AnthropicDelta :> [JsonObject EXCEPT !.type = {"content_block_delta"},
                                             !.delta_text = {"world"}])
    @@ (AnthropicMessageDelta :> [JsonObject EXCEPT !.type = {"message_delta"},
                                                    !.has_usage = TRUE,
                                                    !.output_tokens = {20}])
    @@ (AnthropicStop :> [JsonObject EXCEPT !.type = {"message_stop"}])
    @@ (AnthropicError :> [JsonObject EXCEPT !.type = {"error"},
                                             !.error_message = {"Overloaded"}])
    @@ (AnthropicPing :> [JsonObject EXCEPT !.type = {"ping"}])
    @@ (OllamaMessage :> [JsonObject EXCEPT !.message_content = {"Hi"}, !.done = {FALSE}])
    @@ (OllamaDone :> [JsonObject EXCEPT !.done = {TRUE}, !.prompt_eval_count = {10},
                                         !.eval_count = {20}])

\* serde_json::from_str: {value}, or {} for a parse error
from_str(data) ==
    IF Len(Trim(data)) = 1 /\ Trim(data)[1] \in DOMAIN JsonDocuments
    THEN {JsonDocuments[Trim(data)[1]]}
    ELSE {}

\* .as_u64().unwrap_or(0), .as_str().unwrap_or("")
UnwrapOr(member, default) == IF member = {} THEN default ELSE CHOOSE v \in member : TRUE

JsonParseError == "JSON parse error"

\* parse_openai_sse on a trimmed, non-empty line: {} for None, {chunk} for Some
parse_openai_sse(line) ==
    IF Head(line) /= "data: " THEN {}
    ELSE IF Trim(Tail(line)) = <<"[DONE]">> THEN {Done(TokenUsageDefault)}
    ELSE IF from_str(Tail(line)) = {} THEN {Error(JsonParseError)}
    ELSE UNION {
         IF json.content /= {} /\ json.content /= {""}
         THEN {TextDelta(UnwrapOr(json.content, ""))}
         ELSE IF json.finish_reason \in {{"stop"}, {"length"}}
              THEN {Done(IF json.has_usage
                         THEN TokenUsageNew(UnwrapOr(json.prompt_tokens, 0),
                                            UnwrapOr(json.completion_tokens, 0))
                         ELSE TokenUsageDefault)}
              ELSE {}
         : json \in from_str(Tail(line))}

\* the match on the event type of a parsed Anthropic document
AnthropicEvent(json, event_type) ==
    IF event_type = "content_block_delta"
    THEN IF json.delta_text /= {} /\ json.delta_text /= {""}
         THEN {TextDelta(UnwrapOr(json.delta_text, ""))}
         ELSE {}
    ELSE IF event_type = "message_delta"
    THEN {Done(IF json.has_usage
               THEN TokenUsageNew(UnwrapOr(json.input_tokens, 0),
                                  UnwrapOr(json.output_tokens, 0))
               ELSE TokenUsageDefault)}
    ELSE IF event_type = "message_stop" THEN {Done(TokenUsageDefault)}
    ELSE IF event_type = "error"
    THEN {Error(UnwrapOr(json.error_message, "Unknown error"))}
    ELSE {}

\* parse_anthropic_sse on a trimmed, non-empty line
parse_anthropic_sse(line) ==
    IF Head(line) = "event:" THEN {}
    ELSE IF Head(line) /= "data: " THEN {}
    ELSE IF from_str(Tail(line)) = {} THEN {Error(JsonParseError)}
    ELSE UNION {AnthropicEvent(json, UnwrapOr(json.type, "")) :
                json \in from_str(Tail(line))}

\* what a parsed Ollama document gives: chat format, generate format, done
OllamaChunk(json) ==
    IF json.message_content /= {} /\ json.message_content /= {""}
    THEN {TextDelta(UnwrapOr(json.message_content, ""))}
    ELSE IF json.response /= {} /\ json.response /= {""}
    THEN {TextDelta(UnwrapOr(json.response, ""))}
    ELSE IF json.done = {TRUE}
    THEN {Done(TokenUsageNew(UnwrapOr(json.prompt_eval_count, 0),
                             UnwrapOr(json.eval_count, 0)))}
    ELSE {}

\* parse_ollama_line on a trimmed, non-empty line: a line that is not JSON
\* gives None
parse_ollama_line(line) ==
    IF from_str(line) = {} THEN {}
    ELSE UNION {OllamaChunk(json) : json \in from_str(line)}

\* parse_sse_line: {} when the line is skipped; trimmed is line.trim()
parse_sse_line(line, format) ==
    UNION {IF trimmed = <<>> \/ Head(trimmed) = ":" THEN {}
           ELSE IF format = "OpenAI" THEN parse_openai_sse(trimmed)
           ELSE IF format = "Anthropic" THEN parse_anthropic_sse(trimmed)
           ELSE parse_ollama_line(trimmed)
           : trimmed \in {Trim(line)}}

\* ------------------------------------- send_streaming: the producer task
\* buffer.find('\n'): the position of the first newline, 0 for None
FindNewline(text) ==
    LET newlines == {i \in 1..Len(text) : text[i] = "\n"} IN
    IF newlines = {} THEN 0 ELSE CHOOSE i \in newlines : \A j \in newlines : i <= j

\* the first line of a buffer that holds a newline, and what follows it
FirstLine(text) == SubSeq(text, 1, FindNewline(text) - 1)
AfterFirstLine(text) == SubSeq(text, FindNewline(text) + 1, Len(text))

\* the inner while loop up to its next tx.send: the lines that parse to no
\* chunk are consumed; chunk is {} when the buffer holds no further newline
\* (the loop goes on with the value of the remaining buffer)
RECURSIVE ProcessLines(_, _)
ProcessLines(text, format) ==
    IF FindNewline(text) = 0 THEN [buffer |-> text, chunk |-> {}]
    ELSE IF parse_sse_line(FirstLine(text), format) /= {}
         THEN [buffer |-> AfterFirstLine(text),
               chunk |-> parse_sse_line(FirstLine(text), format)]
         ELSE CHOOSE processed \in {ProcessLines(remaining, format) :
                                    remaining \in {AfterFirstLine(text)}} : TRUE

\* a test that takes only Done for the end of the stream
IsTerminalDoneOnly(chunk) == chunk.kind = "Done"

\* is_done || is_error
IsTerminal(chunk) == chunk.kind \in {"Done", "Error"}

\* a producer that goes on after a failed send
AfterSendIgnoringClosed(sent, chunk) ==
    IF IsTerminal(chunk) THEN "done" ELSE "lines"

\* where the producer goes after tx.send(chunk).await: it returns when the
\* send failed or the chunk was Done or Error
AfterSend(sent, chunk) ==
    IF ~sent \/ IsTerminal(chunk) THEN "done" ELSE "lines"

\* an end of stream reported as an error
EndOfStreamError == Error("Stream ended")

\* the chunk sent when the byte stream ends
EndOfStreamChunk == Done(TokenUsageDefault)

\* the byte chunks a body of each dialect can yield: whole lines, a line cut
\* before its newline, a newline, comments and blank lines, a malformed line
\* followed by a good one, terminal frames
BodyChunks(format) ==
    IF format = "OpenAI" THEN
        {<<"data: ", OpenAIDelta, "\n">>,
         <<"data: ", OpenAIDelta>>,
         <<"\n">>,
         <<":", "keep-alive", "\n", "\r", "\n">>,
         <<"data: ", Malformed, "\n", "data: ", OpenAIDelta, "\n">>,
         <<"data: ", "[DONE]", "\r", "\n">>,
         <<"data: ", OpenAIFinish, "\n", "data: ", "[DONE]", "\n">>}
    ELSE IF format = "Anthropic" THEN
        {<<"event:", " content_block_delta", "\n", "data: ", AnthropicDelta, "\n", "\n">>,
         <<"data: ", AnthropicDelta>>,
         <<"\n">>,
         <<"data: ", AnthropicPing, "\n">>,
         <<"data: ", Malformed, "\n", "data: ", AnthropicDelta, "\n">>,
         <<"data: ", AnthropicMessageDelta, "\n", "data: ", AnthropicStop, "\n">>,
         <<"data: ", AnthropicError, "\n">>}
    ELSE
        {<<OllamaMessage, "\n">>,
         <<OllamaMessage>>,
         <<"\n">>,
         <<Malformed, "\n", OllamaMessage, "\n">>,
         <<OllamaDone, "\n">>}

\* stream.next().await yields Some(Ok(bytes)): buffer.push_str
BodyBytes ==
    /\ producer_pc = "next"
    /\ body = "open"
    /\ body_count < MaxChunks
    /\ \E bytes \in BodyChunks(sse_format) : buffer' = buffer \o bytes
    /\ body_count' = body_count + 1
    /\ producer_pc' = "lines"
    /\ UNCHANGED <<serviceVars, libraryVars, optimizerVars, sse_format, body, sending, channel,
                   received, rx_open, rx_closed>>

\* stream.next().await yields Some(Err(e)): the Error chunk is sent, the
\* result of the send ignored
BodyError ==
    /\ producer_pc = "next"
    /\ body = "open"
    /\ body' = "failed"
    /\ sending' = {Error("Stream error: ")}
    /\ producer_pc' = "send_last"
    /\ UNCHANGED <<serviceVars, libraryVars, optimizerVars, sse_format, body_count, buffer, channel,
                   received, rx_open, rx_closed>>

\* stream.next().await yields None: the loop ends, the final Done is sent
BodyEnd ==
    /\ producer_pc = "next"
    /\ body = "open"
    /\ body' = "ended"
    /\ sending' = {EndOfStreamChunk}
    /\ producer_pc' = "send_last"
    /\ UNCHANGED <<serviceVars, libraryVars, optimizerVars, sse_format, body_count, buffer, channel,
                   received, rx_open, rx_closed>>

\* the inner loop: complete lines are parsed until one gives a chunk
ProcessBuffer ==
    /\ producer_pc = "lines"
    /\ buffer' = ProcessLines(buffer, sse_format).buffer
    /\ sending' = ProcessLines(buffer, sse_format).chunk
    /\ producer_pc' = IF ProcessLines(buffer, sse_format).chunk = {} THEN "next" ELSE "send"
    /\ UNCHANGED <<serviceVars, libraryVars, optimizerVars, sse_format, body, body_count, channel,
                   received, rx_open, rx_closed>>

\* tx.send(chunk).await of a parsed chunk completes: it fails when the
\* receiver is gone, and waits while the channel is full
Send ==
    /\ producer_pc = "send"
    /\ rx_open => Len(channel) < CHANNEL_CAPACITY
    /\ \E chunk \in sending :
          /\ channel' = IF rx_open THEN Append(channel, chunk) ELSE channel
          /\ producer_pc' = AfterSend(rx_open, chunk)
          /\ buffer' = IF AfterSend(rx_open, chunk) = "done" THEN <<>> ELSE buffer
    /\ sending' = {}
    /\ UNCHANGED <<serviceVars, libraryVars, optimizerVars, sse_format, body, body_count, received,
                   rx_open, rx_closed>>

\* let _ = tx.send(..).await of the stream error or of the final Done; the
\* task ends
SendLast ==
    /\ producer_pc = "send_last"
    /\ rx_open => Len(channel) < CHANNEL_CAPACITY
    /\ \E chunk \in sending :
          channel' = IF rx_open THEN Append(channel, chunk) ELSE channel
    /\ producer_pc' = "done"
    /\ buffer' = <<>>
    /\ sending' = {}
    /\ UNCHANGED <<serviceVars, libraryVars, optimizerVars, sse_format, body, body_count, received,
                   rx_open, rx_closed>>

\* the consumer's rx.recv().await returns Some(chunk)
Recv ==
    /\ rx_open /\ ~rx_closed
    /\ channel /= <<>>
    /\ received' = Append(received, Head(channel))
    /\ channel' = Tail(channel)
    /\ UNCHANGED <<serviceVars, libraryVars, optimizerVars, sse_format, body, body_count, buffer,
                   producer_pc, sending, rx_open, rx_closed>>

\* the consumer's rx.recv().await returns None: the sender is dropped and
\* the channel is empty
RecvNone ==
    /\ rx_open /\ ~rx_closed
    /\ channel = <<>>
    /\ producer_pc = "done"
    /\ rx_closed' = TRUE
    /\ UNCHANGED <<serviceVars, libraryVars, optimizerVars, sse_format, body, body_count, buffer,
                   producer_pc, sending, channel, received, rx_open>>

\* the consumer drops the receiver; what was queued is dropped with it
DropReceiver ==
    /\ rx_open /\ ~rx_closed
    /\ rx_open' = FALSE
    /\ channel' = <<>>
    /\ UNCHANGED <<serviceVars, libraryVars, optimizerVars, sse_format, body, body_count, buffer,
                   producer_pc, sending, received, rx_closed>>

\* ----------------------------------------- cache/strategy.rs: CacheOptimizer
\* The optimizer reads a string's content through len() only: a system
\* prompt, a content and a task are modelled by their length in bytes.  A
\* name is a sequence of pieces.

\* ContentStability::cache_priority
cache_priority(stability) ==
    CASE stability = "Static" -> 0
      [] stability = "SemiStatic" -> 1
      [] stability = "Dynamic" -> 2
      [] stability = "Volatile" -> 3

\* str::ends_with on a name
EndsWith(name, suffix) == name /= <<>> /\ name[Len(name)] = suffix

\* classify_context
classify_context(item) ==
    IF item.item_type = "Documentation" THEN "Static"
    ELSE IF item.item_type = "File" THEN
        IF \/ EndsWith(item.name, ".d.ts")
           \/ EndsWith(item.name, "types.rs")
           \/ EndsWith(item.name, "types.py")
           \/ EndsWith(item.name, "schema.prisma")
           \/ Contains(item.name, "interface")
        THEN "SemiStatic"
        ELSE IF \/ EndsWith(item.name, ".json")
                \/ EndsWith(item.name, ".toml")
                \/ EndsWith(item.name, ".yaml")
                \/ EndsWith(item.name, ".yml")
        THEN "SemiStatic"
        ELSE "Dynamic"
    ELSE IF item.item_type = "Snippet" THEN "Dynamic"
    ELSE "Volatile"

\* (len as f32 * tokens_per_char) as usize, tokens_per_char in hundredths
EstimateTokens(len, cfg) == (len * cfg.tokens_per_char) \div 100

\* the items the drain loop pushes to one of its three vectors, in input order
static_context(context) ==
    SelectSeq(context, LAMBDA item : classify_context(item) = "Static")

\* a semi-static vector kept newest first
semi_static_newest_first(context) ==
    LET kept == SelectSeq(context, LAMBDA item : classify_context(item) = "SemiStatic")
    IN [i \in 1..Len(kept) |-> kept[Len(kept) + 1 - i]]

semi_static_context(context) ==
    SelectSeq(context, LAMBDA item : classify_context(item) = "SemiStatic")

dynamic_context(context) ==
    SelectSeq(context, LAMBDA item : classify_context(item) \notin {"Static", "SemiStatic"})

\* the sum of the estimated tokens of the items of a context
RECURSIVE ContextTokens(_, _)
ContextTokens(context, cfg) ==
    IF context = <<>> THEN 0
    ELSE EstimateTokens(Head(context).content, cfg) + ContextTokens(Tail(context), cfg)

\* total_static_tokens and total_dynamic_tokens when the drain loop is over
StaticTokens(req, cfg) ==
    (IF req.system = {} THEN 0
     ELSE EstimateTokens(CHOOSE len \in req.system : TRUE, cfg))
    + ContextTokens(static_context(req.context), cfg)
    + ContextTokens(semi_static_context(req.context), cfg)

\* BreakpointPosition
AfterSystem == [kind |-> "AfterSystem", idx |-> 0]
AfterContext(idx) == [kind |-> "AfterContext", idx |-> idx]

\* an index search that stops at the first item at which the count is reached
first_static_idx(context, cfg) ==
    LET leading == {i \in 1..Len(context) :
                       \A j \in 1..i :
                           classify_context(context[j]) \in {"Static", "SemiStatic"}}
        reached == {i \in leading :
                       ContextTokens(SubSeq(context, 1, i), cfg) >= cfg.min_cache_tokens}
    IN IF reached = {} THEN {}
       ELSE {(CHOOSE i \in reached : \A j \in reached : i <= j) - 1}

\* last_static_idx: {} for None, else the last index (from 0) at which
\* cumulative_tokens has reached min_cache_tokens, among the items the for
\* loop visits: those before the first one that is neither Static nor
\* SemiStatic (positions from 1)
last_static_idx(context, cfg) ==
    LET leading == {i \in 1..Len(context) :
                       \A j \in 1..i :
                           classify_context(context[j]) \in {"Static", "SemiStatic"}}
        reached == {i \in leading :
                       ContextTokens(SubSeq(context, 1, i), cfg) >= cfg.min_cache_tokens}
    IN IF reached = {} THEN {}
       ELSE {(CHOOSE i \in reached : \A j \in reached : j <= i) - 1}

\* calculate_breakpoints
calculate_breakpoints(req, static_tokens, cfg) ==
    IF static_tokens < cfg.min_cache_tokens THEN <<>>
    ELSE LET after_system ==
                 IF /\ req.system /= {}
                    /\ EstimateTokens(CHOOSE len \in req.system : TRUE, cfg)
                          >= cfg.min_cache_tokens
                 THEN <<AfterSystem>>
                 ELSE <<>>
         IN IF Len(after_system) < cfg.max_breakpoints
            THEN after_system
                 \o [i \in 1..Cardinality(last_static_idx(req.context, cfg)) |->
                        AfterContext(CHOOSE idx \in last_static_idx(req.context, cfg) : TRUE)]
            ELSE after_system

\* the request optimize_request returns: its context reordered when
\* auto_reorder is set, left drained otherwise
OptimizedRequest(req, cfg) ==
    [req EXCEPT !.context = IF cfg.auto_reorder
                            THEN static_context(req.context)
                                     \o semi_static_context(req.context)
                                     \o dynamic_context(req.context)
                            ELSE <<>>]

\* optimize_request
optimize_request(req, cfg) ==
    [request |-> OptimizedRequest(req, cfg),
     breakpoints |-> calculate_breakpoints(OptimizedRequest(req, cfg),
                                           StaticTokens(req, cfg), cfg),
     static_tokens |-> StaticTokens(req, cfg),
     dynamic_tokens |-> ContextTokens(dynamic_context(req.context), cfg)
                            + EstimateTokens(req.task, cfg),
     estimated_cache_savings |->
         IF StaticTokens(req, cfg) >= cfg.min_cache_tokens
         THEN (StaticTokens(req, cfg) * 9) \div 10
         ELSE 0]

\* the context items handed to the optimizer: one of each way
\* classify_context tells items apart, contents above and just below the
\* cache minimum at 0.25 token per byte
ContextItems ==
    {[name |-> <<"docs/", "guide.md">>, content |-> 4096, item_type |-> "Documentation"],
     [name |-> <<"src/", "types.rs">>, content |-> 2048, item_type |-> "File"],
     [name |-> <<"Cargo", ".toml">>, content |-> 4092, item_type |-> "File"],
     [name |-> <<"src/", "main.rs">>, content |-> 2048, item_type |-> "File"],
     [name |-> <<"selection">>, content |-> 4096, item_type |-> "Snippet"],
     [name |-> <<"stderr">>, content |-> 2048, item_type |-> "Error"]}

\* the requests handed to the optimizer
ApiRequests ==
    [system : {{}, {2048}, {4092}, {4096}},
     messages : {<<>>},
     context : UNION {[1..n -> ContextItems] : n \in 0..MaxContext},
     task : {40}]

\* the configurations of the optimizer
CacheConfigs ==
    [min_cache_tokens : {MIN_CACHE_TOKENS},
     max_breakpoints : {0, 1, 4},
     auto_reorder : BOOLEAN,
     tokens_per_char : {25}]

\* a caller hands its request to CacheOptimizer::optimize_request
OptimizeRequest ==
    /\ optimized = {}
    /\ optimized' = {optimize_request(api_request, config)}
    /\ UNCHANGED <<serviceVars, libraryVars, producerVars, config, api_request, previous>>

\* the caller comes back with its next request: the context of the request
\* before, with further items behind it
NextRequest ==
    /\ previous = {}
    /\ \E o \in optimized : previous' = {[api_request |-> api_request, optimized |-> o]}
    /\ \E n \in 0..(MaxContext - Len(api_request.context)) :
          \E further \in [1..n -> ContextItems] :
              api_request' = [api_request EXCEPT !.context = @ \o further]
    /\ optimized' = {}
    /\ UNCHANGED <<serviceVars, libraryVars, producerVars, config>>

\* ------------------------------------------- cache/tracker.rs: CacheTracker
\* CacheMetrics::update_hit_rate: the quotient as <<numerator, denominator>>
update_hit_rate(m) ==
    [m EXCEPT !.hit_rate = IF m.cache_hits + m.cache_misses > 0
                           THEN <<m.cache_hits, m.cache_hits + m.cache_misses>>
                           ELSE <<0, 1>>]

\* CacheMetrics::record_hit; (tokens as f64 * 0.9) as u64 rounds down
record_hit(m, tokens) ==
    update_hit_rate([m EXCEPT !.cache_hits = @ + 1,
                              !.cached_tokens = @ + tokens,
                              !.estimated_savings = @ + ((tokens * 9) \div 10)])

\* a miss that counts no tokens
record_miss_only(m, tokens) ==
    update_hit_rate([m EXCEPT !.cache_misses = @ + 1])

\* CacheMetrics::record_miss
record_miss(m, tokens) ==
    update_hit_rate([m EXCEPT !.cache_misses = @ + 1,
                              !.uncached_tokens = @ + tokens])

\* CacheMetrics::record_write
record_write(m, tokens) ==
    [m EXCEPT !.cache_writes = @ + 1, !.uncached_tokens = @ + tokens]

\* the keys, and the (hash, token count) pairs content is cached under
Keys == {"key1", "key2", "key3", "key4"}
Contents ==
    {[content_hash |-> 11111, token_count |-> 5],
     [content_hash |-> 22222, token_count |-> 100]}

\* the CacheEntry cache_content builds at the instant t
NewEntry(content, permanent, t) ==
    [content_hash |-> content.content_hash,
     token_count |-> content.token_count,
     created_at |-> t,
     last_accessed |-> t,
     hit_count |-> 0,
     stability |-> IF permanent THEN "Permanent" ELSE "Session"]

\* an insert that keeps the entry a key already has
InsertIfAbsent(table, key, entry) ==
    [k \in DOMAIN table \cup {key} |-> IF k = key /\ k \notin DOMAIN table THEN entry
                                        ELSE table[k]]

\* HashMap::insert
Insert(table, key, entry) ==
    [k \in DOMAIN table \cup {key} |-> IF k = key THEN entry ELSE table[k]]

\* by_access: the keys of the entries that are not Permanent
ByAccess(table) == {k \in DOMAIN table : table[k].stability /= "Permanent"}

\* an eviction that takes permanent entries as well
EvictedAmongAll(table, capacity) ==
    {k \in DOMAIN table :
        Cardinality({j \in DOMAIN table :
                        table[j].last_accessed < table[k].last_accessed})
            < capacity \div 4}

\* evict_lru: the first max_entries / 4 keys of by_access sorted by
\* last_accessed
Evicted(table, capacity) ==
    {k \in ByAccess(table) :
        Cardinality({j \in ByAccess(table) :
                        table[j].last_accessed < table[k].last_accessed})
            < capacity \div 4}

\* the table cache_content inserts into: evict_lru has run when the table
\* was at capacity, and removed each of the keys to evict
AfterEviction(table, capacity) ==
    IF Cardinality(DOMAIN table) >= capacity
    THEN [k \in DOMAIN table \ Evicted(table, capacity) |-> table[k]]
    ELSE table

\* calls made on the tracker
Calls == observed.write + observed.hit + observed.stale + observed.miss

\* cache_content(key, content_hash, token_count, permanent)
CacheContent ==
    /\ Calls < MaxCalls
    /\ \E key \in Keys : \E content \in Contents : \E permanent \in BOOLEAN :
          /\ entries' = Insert(AfterEviction(entries, max_entries), key,
                               NewEntry(content, permanent, now + 1))
          /\ metrics' = record_write(metrics, content.token_count)
          /\ cache_status' = {[op |-> "cache_content", key |-> key,
                               content_hash |-> content.content_hash,
                               status |-> "None", tokens |-> content.token_count,
                               age |-> 0]}
    /\ now' = now + 1
    /\ observed' = [observed EXCEPT !.write = @ + 1]
    /\ UNCHANGED <<serviceVars, producerVars, optimizerVars, lockVars, sessionVars, usageVars,
                   max_entries>>

\* check on a matching entry: last_accessed and hit_count are updated
HitEntry(entry, t) == [entry EXCEPT !.last_accessed = t, !.hit_count = @ + 1]

\* check(key, content_hash) returns Hit { tokens, age }
CheckHit ==
    /\ Calls < MaxCalls
    /\ \E key \in DOMAIN entries :
          /\ entries' = [entries EXCEPT ![key] = HitEntry(@, now + 1)]
          /\ metrics' = record_hit(metrics, entries[key].token_count)
          /\ cache_status' = {[op |-> "check", key |-> key,
                               content_hash |-> entries[key].content_hash,
                               status |-> "Hit", tokens |-> entries[key].token_count,
                               age |-> now + 1 - entries[key].created_at]}
          /\ observed' = [observed EXCEPT !.hit = @ + 1,
                                          !.hit_tokens = @ + entries[key].token_count]
    /\ now' = now + 1
    /\ UNCHANGED <<serviceVars, producerVars, optimizerVars, lockVars, sessionVars, usageVars,
                   max_entries>>

\* check(key, content_hash) returns Stale: the key is present under another hash
CheckStale ==
    /\ Calls < MaxCalls
    /\ \E key \in DOMAIN entries :
          \E content \in Contents :
              /\ content.content_hash /= entries[key].content_hash
              /\ metrics' = record_miss(metrics, entries[key].token_count)
              /\ cache_status' = {[op |-> "check", key |-> key,
                                   content_hash |-> content.content_hash,
                                   status |-> "Stale", tokens |-> 0, age |-> 0]}
    /\ observed' = [observed EXCEPT !.stale = @ + 1]
    /\ UNCHANGED <<serviceVars, producerVars, optimizerVars, lockVars, sessionVars, usageVars,
                   entries, max_entries, now>>

\* check(key, content_hash) returns Miss: the key is absent
CheckMiss ==
    /\ Calls < MaxCalls
    /\ \E key \in Keys \ DOMAIN entries :
          \E content \in Contents :
              cache_status' = {[op |-> "check", key |-> key,
                                content_hash |-> content.content_hash,
                                status |-> "Miss", tokens |-> 0, age |-> 0]}
    /\ observed' = [observed EXCEPT !.miss = @ + 1]
    /\ UNCHANGED <<serviceVars, producerVars, optimizerVars, lockVars, sessionVars, usageVars,
                   entries, metrics, max_entries, now>>

\* the tables of a tracker in use: the first keys were cached one after the
\* other, each under the first content, permanent or not
TablesInUse ==
    {[k \in {"key1", "key2", "key3", "key4"} \cap held |->
         NewEntry([content_hash |-> 11111, token_count |-> 5], k \in permanent,
                  CASE k = "key1" -> 1 [] k = "key2" -> 2 [] k = "key3" -> 3
                    [] k = "key4" -> 4)] :
       held \in {{}, {"key1"}, {"key1", "key2"}, {"key1", "key2", "key3"},
                 {"key1", "key2", "key3", "key4"}},
       permanent \in SUBSET Keys}

\* ------------------------- cache/tracker.rs: threads sharing a CacheTracker
\* the keys the threads use
ThreadKeys == {"key1", "key2"}

\* the calls a thread can make: the method and its arguments
ThreadCalls ==
    {[op |-> "cache_content", key |-> key, content |-> content, permanent |-> permanent] :
        key \in ThreadKeys, content \in Contents, permanent \in BOOLEAN}
    \cup {[op |-> "check", key |-> key, content |-> content] :
            key \in ThreadKeys, content \in Contents}
    \cup {[op |-> "invalidate", key |-> key] : key \in ThreadKeys}
    \cup {[op |-> op] : op \in {"clear", "summary", "get_metrics", "reset_metrics"}}

\* a summary that locks the metrics before the entries
FirstLockMetricsInSummary(op) ==
    IF op \in {"get_metrics", "reset_metrics", "summary"} THEN "lock_metrics"
    ELSE "lock_entries"

\* the Mutex a method locks first: get_metrics and reset_metrics lock the
\* metrics, every other method locks the entries
FirstLock(op) ==
    IF op \in {"get_metrics", "reset_metrics"} THEN "lock_metrics" ELSE "lock_entries"

\* the methods that lock the entries
LocksEntries(op) == op \notin {"get_metrics", "reset_metrics"}

\* whether a call locks the metrics, given the table it finds: check does when
\* the key is present, to record the hit or the miss
LocksMetrics(call, table) ==
    \/ call.op \in {"cache_content", "summary", "get_metrics", "reset_metrics"}
    \/ call.op = "check" /\ call.key \in DOMAIN table

\* a thread calls a method of the tracker
Call(t) ==
    /\ thread_pc[t] = "idle"
    /\ calls_started < MaxThreadCalls
    /\ \E call \in ThreadCalls :
          /\ thread_call' = [thread_call EXCEPT ![t] = {call}]
          /\ thread_pc' = [thread_pc EXCEPT ![t] = FirstLock(call.op)]
    /\ calls_started' = calls_started + 1
    /\ UNCHANGED <<serviceVars, producerVars, optimizerVars, sessionVars, usageVars,
                   trackerVars, entries_lock, metrics_lock>>

\* self.entries.lock() returns, and the method does its work on the table
LockEntries(t) ==
    /\ thread_pc[t] = "lock_entries"
    /\ entries_lock = {}
    /\ entries_lock' = {t}
    /\ \E call \in thread_call[t] :
          /\ thread_pc' =
                [thread_pc EXCEPT ![t] =
                    IF LocksMetrics(call, entries) /\ metrics_lock /= {t}
                    THEN "lock_metrics"
                    ELSE IF metrics_lock = {t} THEN "unlock_metrics"
                    ELSE "unlock_entries"]
          /\ CASE call.op = "cache_content" ->
                    /\ entries' = Insert(AfterEviction(entries, max_entries), call.key,
                                         NewEntry(call.content, call.permanent, now + 1))
                    /\ now' = now + 1
               [] call.op = "check" /\ call.key \in DOMAIN entries ->
                    IF entries[call.key].content_hash = call.content.content_hash
                    THEN /\ entries' = [entries EXCEPT ![call.key] = HitEntry(@, now + 1)]
                         /\ now' = now + 1
                    ELSE UNCHANGED <<entries, now>>
               [] call.op = "invalidate" ->
                    /\ entries' = [k \in DOMAIN entries \ {call.key} |-> entries[k]]
                    /\ now' = now
               [] call.op = "clear" ->
                    /\ entries' = <<>>
                    /\ now' = now
               [] OTHER -> UNCHANGED <<entries, now>>
    /\ UNCHANGED <<serviceVars, producerVars, optimizerVars, sessionVars, usageVars,
                   metrics, max_entries, cache_status, observed,
                   thread_call, metrics_lock, calls_started>>

\* self.metrics.lock() returns, and the method records or reads under it
LockMetrics(t) ==
    /\ thread_pc[t] = "lock_metrics"
    /\ metrics_lock = {}
    /\ metrics_lock' = {t}
    /\ \E call \in thread_call[t] :
          /\ thread_pc' =
                [thread_pc EXCEPT ![t] =
                    IF LocksEntries(call.op) /\ entries_lock /= {t}
                    THEN "lock_entries"
                    ELSE "unlock_metrics"]
          /\ metrics' =
                CASE call.op = "cache_content" ->
                        record_write(metrics, call.content.token_count)
                  [] call.op = "check" ->
                        IF entries[call.key].content_hash = call.content.content_hash
                        THEN record_hit(metrics, entries[call.key].token_count)
                        ELSE record_miss(metrics, entries[call.key].token_count)
                  [] call.op = "reset_metrics" -> DefaultCacheMetrics
                  [] OTHER -> metrics
    /\ UNCHANGED <<serviceVars, producerVars, optimizerVars, sessionVars, usageVars,
                   entries, max_entries, now, cache_status, observed,
                   thread_call, entries_lock, calls_started>>

\* the guard of the metrics is dropped; a method that held no other returns
UnlockMetrics(t) ==
    /\ thread_pc[t] = "unlock_metrics"
    /\ metrics_lock' = {}
    /\ thread_pc' = [thread_pc EXCEPT ![t] =
                        IF entries_lock = {t} THEN "unlock_entries" ELSE "idle"]
    /\ thread_call' = [thread_call EXCEPT ![t] = IF entries_lock = {t} THEN @ ELSE {}]
    /\ UNCHANGED <<serviceVars, producerVars, optimizerVars, sessionVars, usageVars,
                   trackerVars, entries_lock, calls_started>>

\* the guard of the entries is dropped and the method returns
UnlockEntries(t) ==
    /\ thread_pc[t] = "unlock_entries"
    /\ entries_lock' = {}
    /\ thread_pc' = [thread_pc EXCEPT ![t] = "idle"]
    /\ thread_call' = [thread_call EXCEPT ![t] = {}]
    /\ UNCHANGED <<serviceVars, producerVars, optimizerVars, sessionVars, usageVars,
                   trackerVars, metrics_lock, calls_started>>

\* a step of thread t
ThreadStep(t) ==
    \/ Call(t)
    \/ LockEntries(t)
    \/ LockMetrics(t)
    \/ UnlockMetrics(t)
    \/ UnlockEntries(t)

\* ------------------------------------------ orchestrator/session.rs: Session
\* the byte length of a summary: the text, or its first limit bytes and "..."
Summary(len, limit) == IF len > limit THEN limit + 3 ELSE len

\* the requests and responses of the turns: the byte lengths of the task and of
\* the content, the usage's total_tokens and its estimated cost, if any
Exchanges ==
    {[task |-> 40, content |-> 100, total_tokens |-> 35, estimated_cost_usd |-> {}],
     [task |-> 250, content |-> 100, total_tokens |-> 0, estimated_cost_usd |-> {120}],
     [task |-> 40, content |-> 600, total_tokens |-> 700, estimated_cost_usd |-> {2400}]}

\* the Turn record_turn builds at the instant t
NewTurn(exchange, provider, t) ==
    [request_summary |-> Summary(exchange.task, 200),
     response_summary |-> Summary(exchange.content, 500),
     provider |-> provider,
     tokens_used |-> exchange.total_tokens,
     timestamp |-> t]

RECURSIVE TrimNewest(_, _)
RECURSIVE TrimHistory(_, _)
\* a trim that removes the last turn
TrimNewest(turns, limit) ==
    IF Len(turns) > limit
    THEN TrimNewest(SubSeq(turns, 1, Len(turns) - 1), limit)
    ELSE turns

\* while history.len() > max_history { history.remove(0) }
TrimHistory(turns, limit) ==
    IF Len(turns) > limit
    THEN TrimHistory(Tail(turns), limit)
    ELSE turns

\* Session::record_turn(request, response, provider)
RecordTurn ==
    /\ Len(recorded) < MaxTurns
    /\ \E exchange \in Exchanges : \E provider \in {"venice", "claude"} :
          LET turn == NewTurn(exchange, provider, now + 1) IN
          /\ history' = TrimHistory(Append(history, turn), max_history)
          /\ session_tokens' = session_tokens + exchange.total_tokens
          /\ \/ exchange.estimated_cost_usd = {} /\ session_cost' = session_cost
             \/ \E cost \in exchange.estimated_cost_usd :
                   session_cost' = session_cost + cost
          /\ recorded' = Append(recorded, turn)
    /\ now' = now + 1
    /\ UNCHANGED <<serviceVars, producerVars, optimizerVars, lockVars, usageVars, max_history,
                   entries, metrics, max_entries, cache_status, observed>>

\* --------------------------------------------- api/response.rs: TokenUsage
\* a u32 is held as two 16-bit halves, value = hi * 2^16 + lo
Half == 65536
U32(hi, lo) == [hi |-> hi, lo |-> lo]
U32Zero == U32(0, 0)

\* a + b on u32 in a build without overflow checks: the sum modulo 2^32
wrapping_add(a, b) ==
    U32((a.hi + b.hi + ((a.lo + b.lo) \div Half)) % Half, (a.lo + b.lo) % Half)

\* what prompt_tokens + completion_tokens evaluates to: the sum; when it
\* overflows, the wrapped sum or a panic, as the build has overflow checks
\* off or on
Add(a, b) ==
    IF a.hi + b.hi + ((a.lo + b.lo) \div Half) >= Half
    THEN {[outcome |-> "value", value |-> wrapping_add(a, b)], [outcome |-> "panic"]}
    ELSE {[outcome |-> "value", value |-> wrapping_add(a, b)]}

\* the counter values of a usage: small ones and the ends of the range
U32Values == {U32(hi, lo) : hi \in {0, 32768, 65535}, lo \in {0, 1, 65535}}

\* the result of a constructor: the TokenUsage, or the panic of the addition
Built(prompt_tokens, completion_tokens, cache_creation, cache_read, sum) ==
    IF sum.outcome = "panic"
    THEN [outcome |-> "panic"]
    ELSE [outcome |-> "built",
          prompt_tokens |-> prompt_tokens,
          completion_tokens |-> completion_tokens,
          total_tokens |-> sum.value,
          estimated_cost_usd |-> {},
          cache_creation_tokens |-> cache_creation,
          cache_read_tokens |-> cache_read]

\* TokenUsage::new(prompt_tokens, completion_tokens)
UsageNew ==
    /\ token_usage = {}
    /\ \E c \in counters : \E sum \in Add(c.prompt_tokens, c.completion_tokens) :
          token_usage' = {Built(c.prompt_tokens, c.completion_tokens, {}, {}, sum)}
    /\ UNCHANGED <<serviceVars, producerVars, optimizerVars, lockVars, trackerVars, sessionVars,
                   counters>>

\* TokenUsage::with_cache(prompt_tokens, completion_tokens, cache_creation,
\* cache_read)
UsageWithCache ==
    /\ token_usage = {}
    /\ \E c \in counters : \E sum \in Add(c.prompt_tokens, c.completion_tokens) :
          \E cache_creation \in {{}, {U32(0, 100)}} : \E cache_read \in {{}, {U32(0, 100)}} :
              token_usage' = {Built(c.prompt_tokens, c.completion_tokens,
                                    cache_creation, cache_read, sum)}
    /\ UNCHANGED <<serviceVars, producerVars, optimizerVars, lockVars, trackerVars, sessionVars,
                   counters>>

\* TokenUsage::default(): every counter is 0, whatever the response held
UsageDefault ==
    /\ token_usage = {}
    /\ token_usage' = {[outcome |-> "built",
                        prompt_tokens |-> U32Zero,
                        completion_tokens |-> U32Zero,
                        total_tokens |-> U32Zero,
                        estimated_cost_usd |-> {},
                        cache_creation_tokens |-> {},
                        cache_read_tokens |-> {}]}
    /\ UNCHANGED <<serviceVars, producerVars, optimizerVars, lockVars, trackerVars, sessionVars,
                   counters>>

\* ------------------------------------------------------------------ Spec
\* one step of caller c inside execute
CallerStep(c) ==
    \/ Execute(c)
    \/ SendRequestCheck(c)
    \/ HttpFail(c)
    \/ HttpRespond(c)
    \/ ReadBody(c)
    \/ Sleep(c)
    \/ ReadBalance(c)
    \/ LowCheck(c)
    \/ StoreContext(c)
    \/ SwitchToFallback(c)
    \/ Handoff(c)
    \/ FallbackUnavailable(c)
    \/ FallbackCall(c)
    \/ FallbackReturn(c)

\* the orchestrator shared by concurrent callers, the balance probe running
Next ==
    \/ \E c \in Callers : CallerStep(c)
    \/ ForceFallback
    \/ ResetToVenice
    \/ FetchBalance
    \/ FetchBalanceStore

Spec == Init /\ [][Next]_vars

\* the credit tracker under every kind of call: one caller of execute
\* (send_request), a direct send_streaming client and the balance probe
CreditNext ==
    \/ CallerStep("c1")
    \/ ForceFallback
    \/ ResetToVenice
    \/ FetchBalance
    \/ FetchBalanceStore
    \/ SendStreaming
    \/ StreamHttpFail
    \/ StreamHttpRespond
    \/ StreamStatus

CreditSpec == Init /\ [][CreditNext]_vars

\* send_streaming has returned Ok(rx): the producer task is spawned on a
\* response of one of the dialects and the consumer holds the receiver
StreamInit ==
    /\ ServiceInit /\ preserve_context
    /\ NoOptimizer /\ NoLibrary
    /\ sse_format \in SseFormat
    /\ body = "open"
    /\ body_count = 0
    /\ buffer = <<>>
    /\ producer_pc = "next"
    /\ sending = {}
    /\ channel = <<>>
    /\ received = <<>>
    /\ rx_open = TRUE
    /\ rx_closed = FALSE

\* a step of the HTTP body
BodyStep == BodyBytes \/ BodyError \/ BodyEnd

\* a step of the producer task
ProducerStep == ProcessBuffer \/ Send \/ SendLast

\* the consumer takes what recv() returns
ConsumerStep == Recv \/ RecvNone

StreamNext ==
    \/ BodyBytes
    \/ BodyError
    \/ BodyEnd
    \/ ProcessBuffer
    \/ Send
    \/ SendLast
    \/ Recv
    \/ RecvNone
    \/ DropReceiver

\* the body yields or ends, the spawned task runs, and a consumer that holds
\* the receiver keeps receiving; when it drops the receiver is its choice
StreamSpec ==
    /\ StreamInit /\ [][StreamNext]_vars
    /\ WF_vars(BodyStep) /\ WF_vars(ProducerStep) /\ WF_vars(ConsumerStep)

\* a CacheOptimizer built on a configuration, and a request to optimize
OptimizerInit ==
    /\ ServiceInit /\ preserve_context
    /\ NoStream /\ NoLibrary
    /\ config \in CacheConfigs
    /\ api_request \in ApiRequests
    /\ optimized = {}
    /\ previous = {}

OptimizerNext ==
    \/ OptimizeRequest
    \/ NextRequest

OptimizerSpec == OptimizerInit /\ [][OptimizerNext]_vars

\* a tracker in use, built with a capacity: its table holds what was cached
\* before, its metrics were reset
TrackerInit ==
    /\ ServiceInit /\ preserve_context
    /\ NoStream /\ NoOptimizer /\ NoSession /\ NoUsage /\ NoLocks
    /\ max_entries \in {1, 4}
    /\ entries \in TablesInUse
    /\ now = Cardinality(DOMAIN entries)
    /\ metrics = DefaultCacheMetrics
    /\ cache_status = {}
    /\ observed = [write |-> 0, hit |-> 0, stale |-> 0, miss |-> 0, hit_tokens |-> 0]

TrackerNext ==
    \/ CacheContent
    \/ CheckHit
    \/ CheckStale
    \/ CheckMiss

TrackerSpec == TrackerInit /\ [][TrackerNext]_vars

\* a new session, built on a configuration
SessionInit ==
    /\ ServiceInit /\ preserve_context
    /\ NoStream /\ NoOptimizer /\ NoTracker /\ NoUsage /\ NoLocks
    /\ max_history \in {0, 1, 2, 20}
    /\ history = <<>>
    /\ session_tokens = 0
    /\ session_cost = 0
    /\ recorded = <<>>

SessionNext == RecordTurn

SessionSpec == SessionInit /\ [][SessionNext]_vars

\* the counters of a response, cast to u32, before the usage is built
UsageInit ==
    /\ ServiceInit /\ preserve_context
    /\ NoStream /\ NoOptimizer /\ NoTracker /\ NoSession /\ NoLocks
    /\ \E prompt_tokens \in U32Values : \E completion_tokens \in U32Values :
          counters = {[prompt_tokens |-> prompt_tokens,
                       completion_tokens |-> completion_tokens]}
    /\ token_usage = {}

UsageNext ==
    \/ UsageNew
    \/ UsageWithCache
    \/ UsageDefault

UsageSpec == UsageInit /\ [][UsageNext]_vars

\* a tracker built with a capacity and shared by the threads
LockInit ==
    /\ ServiceInit /\ preserve_context
    /\ NoStream /\ NoOptimizer /\ NoSession /\ NoUsage /\ NoLocks
    /\ max_entries \in {1, 4}
    /\ entries = <<>>
    /\ now = 0
    /\ metrics = DefaultCacheMetrics
    /\ cache_status = {}
    /\ observed = [write |-> 0, hit |-> 0, stale |-> 0, miss |-> 0, hit_tokens |-> 0]

LockNext == \E t \in Threads : ThreadStep(t)

\* every thread that can take a step is scheduled
LockSpec == LockInit /\ [][LockNext]_vars /\ \A t \in Threads : WF_vars(ThreadStep(t))

\* a step of caller c while its execute is in progress
InExecute(c) == pc[c] /= "idle" /\ CallerStep(c)

\* one caller of execute beside force_fallback, reset_to_venice and the probe
LiveNext ==
    \/ CallerStep("c1")
    \/ ForceFallback
    \/ ResetToVenice
    \/ FetchBalance
    \/ FetchBalanceStore

\* every provider call, lock acquisition and sleep of the execute in progress
\* returns
LiveSpec == Init /\ [][LiveNext]_vars /\ WF_vars(InExecute("c1"))

\* ================================================================ claims

\* C2 (exhaustion persistence): under any interleaving of send_request,
\* send_streaming and fetch_balance, once is_exhausted() is true it stays
\* true; no operation clears the flag.
C2_ExhaustionPersists == [][credits_exhausted => credits_exhausted']_vars

\* the flag is set and a later probe has reported full balances
C2_Witness ==
    /\ credits_exhausted
    /\ ~probe_low
    /\ balance = ProbedBalance(10, 10)

\* C3: a send_request or send_streaming called while is_exhausted() is true
\* returns the exhausted error at once: no HTTP request is issued, no stream
\* channel is opened and the balance record is left as it was.
C3_ExhaustedFailsFast ==
    [][credits_exhausted =>
          /\ SendStreaming =>
                /\ stream_pc' = "idle"
                /\ ~stream_http'
                /\ stream_result' = Err(Provider(ExhaustedMsg))
                /\ balance' = balance
          /\ \A c \in Callers :
                SendRequestCheck(c) => pc'[c] = "switch" /\ balance' = balance]_vars

\* a send_streaming has failed with the exhausted error without any HTTP
C3_Witness ==
    /\ credits_exhausted
    /\ stream_pc = "idle"
    /\ ~stream_http
    /\ stream_result = Err(Provider(ExhaustedMsg))

\* C4: the exhausted field of the balance record is latched: once a
\* get_balance() snapshot shows exhausted = true, every later one does.
C4_SnapshotLatched == [][get_balance.exhausted => get_balance'.exhausted]_vars

\* the handoff note for n accumulated responses
NoteFor(n) ==
    <<"\n\n[Session handoff from Venice.ai - ", ToString(n),
      " previous responses in context]\n">>

\* caller c is on the exhaustion path: from the Exhausted arm to the fallback
OnHandoffPath(c) ==
    \/ pc[c] \in {"switch", "handoff"}
    \/ pc[c] \in {"execute_fallback", "fallback_execute"} /\ via[c] = "handoff"

\* C1 as stated: when the primary returns Exhausted the state becomes
\* UsingFallback and the next provider call is one call of fallback.execute
\* whose task is the original task prefixed by the handoff note, the note
\* carrying the number of responses accumulated in the session context.
C1_HandoffAlwaysNoted ==
    [][\A c \in Callers :
          /\ via'[c] = "exhausted" /\ via[c] /= "exhausted" => pc'[c] = "switch"
          /\ pc[c] = "switch" /\ pc'[c] /= "switch" => state' = "UsingFallback"
          /\ pc[c] = "handoff" /\ pc'[c] /= "handoff" =>
                request'[c] = NoteFor(Len(session_context)) \o task[c]
          /\ pc[c] = "execute_fallback" /\ via[c] = "handoff" /\ pc'[c] /= pc[c] =>
                pc'[c] = "fallback_execute" /\ fallback_calls'[c] = 1]_vars

\* C1 amended: when the primary returns Exhausted the state becomes
\* UsingFallback and no further primary call is made for the request; the
\* task handed to the fallback is the original task, prefixed by the handoff
\* note carrying the number of accumulated responses exactly when
\* preserve_context is set and that number is not zero; if the fallback is
\* available the next provider call is one fallback.execute with that task,
\* and otherwise no fallback.execute is made, the state becomes Unavailable
\* and the unavailable error is returned.
C1_HandoffNotedWhenHistory ==
    [][\A c \in Callers :
          /\ via'[c] = "exhausted" /\ via[c] /= "exhausted" => pc'[c] = "switch"
          /\ pc[c] = "switch" /\ pc'[c] /= "switch" =>
                state' = "UsingFallback" /\ pc'[c] = "handoff"
          /\ pc[c] = "handoff" /\ pc'[c] /= "handoff" =>
                /\ pc'[c] = "execute_fallback" /\ via'[c] = "handoff"
                /\ request'[c] =
                      IF preserve_context /\ Len(session_context) > 0
                      THEN NoteFor(Len(session_context)) \o task[c]
                      ELSE task[c]
          /\ pc[c] = "execute_fallback" /\ via[c] = "handoff" /\ pc'[c] /= pc[c] =>
                \/ /\ pc'[c] = "fallback_execute"
                   /\ fallback_calls[c] = 0 /\ fallback_calls'[c] = 1
                   /\ request'[c] = request[c]
                   /\ state' = state
                \/ /\ pc'[c] = "idle"
                   /\ fallback_calls[c] = 0
                   /\ state' = "Unavailable"
                   /\ result'[c] = Err(Provider(FallbackUnavailableMsg))
          /\ OnHandoffPath(c) => venice_calls'[c] = 0 /\ task'[c] \in {task[c], <<>>}]_vars

\* the fallback is executing a task that carries the note for two responses
C1_Witness ==
    \E c \in Callers :
        /\ pc[c] = "fallback_execute"
        /\ via[c] = "handoff"
        /\ request[c] = NoteFor(2) \o task[c]

\* C5: an execute that starts in UsingVenice or VeniceLow calls the primary
\* at most max_retries + 1 times, rate-limit and other-error retries drawing
\* on the one budget, and it returns provided every provider call and sleep
\* returns.
C5_BoundedRetries ==
    /\ [](\A c \in Callers : venice_calls[c] <= max_retries + 1 /\ retries[c] <= max_retries)
    /\ [][\A c \in Callers :
             /\ venice_calls'[c] > venice_calls[c] =>
                   pc[c] = "send_request" /\ venice_calls'[c] = venice_calls[c] + 1
             /\ pc'[c] = "send_request" /\ pc[c] /= "send_request" =>
                   \/ pc[c] = "idle" /\ venice_calls'[c] = 0 /\ retries'[c] = 0
                   \/ pc[c] = "sleep" /\ venice_calls'[c] = retries[c]
                                      /\ retries'[c] = retries[c]
             /\ pc'[c] = "sleep" /\ pc[c] /= "sleep" => retries'[c] = retries[c] + 1]_vars
    /\ \A c \in Callers : (pc[c] /= "idle") ~> (pc[c] = "idle")

\* the last call the budget allows is in flight
C5_Witness ==
    /\ pc["c1"] = "http"
    /\ retries["c1"] = max_retries
    /\ venice_calls["c1"] = max_retries + 1

\* C6: an execute called while the state is UsingFallback never calls the
\* primary: it is routed to execute_fallback with its task; when the
\* fallback is available its execute is called once with that task, and when
\* it is not the state becomes Unavailable and execute returns an error
\* without calling the fallback's execute.
C6_FallbackStateSkipsPrimary ==
    [][\A c \in Callers :
          /\ state = "UsingFallback" /\ Execute(c) =>
                /\ pc'[c] = "execute_fallback" /\ via'[c] = "execute"
                /\ request'[c] = task'[c] /\ task'[c] \in Tasks
                /\ venice_calls'[c] = 0 /\ fallback_calls'[c] = 0
          /\ via'[c] = "execute" /\ via[c] /= "execute" => state = "UsingFallback"
          /\ via[c] = "execute" =>
                /\ venice_calls[c] = 0 /\ venice_calls'[c] = 0
                /\ pc[c] \in {"execute_fallback", "fallback_execute"}
                /\ pc'[c] \in {"execute_fallback", "fallback_execute", "idle"}
          /\ pc[c] = "execute_fallback" /\ via[c] = "execute" /\ pc'[c] /= pc[c] =>
                \/ /\ pc'[c] = "fallback_execute"
                   /\ fallback_calls[c] = 0 /\ fallback_calls'[c] = 1
                   /\ request'[c] = task[c]
                   /\ state' = state
                \/ /\ pc'[c] = "idle"
                   /\ fallback_calls[c] = 0
                   /\ state' = "Unavailable"
                   /\ result'[c] = Err(Provider(FallbackUnavailableMsg))]_vars

\* an execute that found UsingFallback is about to ask the fallback
C6_Witness ==
    \E c \in Callers :
        /\ pc[c] = "execute_fallback"
        /\ via[c] = "execute"
        /\ state = "UsingFallback"
        /\ request[c] \in Tasks

\* C7 as stated: once the state is Unavailable it stays Unavailable, whatever
\* execute, force_fallback or reset_to_venice does afterwards.
C7_UnavailableIsTerminal == [][state = "Unavailable" => state' = "Unavailable"]_vars

\* C7 amended: an execute called while the state is Unavailable fails at once
\* with the no-providers error, calls neither provider and leaves the state
\* alone; the state leaves Unavailable only by force_fallback (UsingFallback),
\* by reset_to_venice while the primary is not exhausted (UsingVenice), or by
\* an execute already in flight: its low-balance write after a success
\* (VeniceLow) or its Exhausted arm (UsingFallback).
C7_UnavailableFailsFast ==
    [][state = "Unavailable" =>
          /\ \A c \in Callers :
                Execute(c) =>
                   /\ pc'[c] = "idle"
                   /\ result'[c] = Err(Provider(NoProvidersMsg))
                   /\ venice_calls'[c] = 0 /\ fallback_calls'[c] = 0
                   /\ state' = "Unavailable"
          /\ state' /= "Unavailable" =>
                \/ state' = "UsingFallback" /\ UNCHANGED callerVars
                \/ state' = "UsingVenice" /\ ~is_exhausted /\ UNCHANGED callerVars
                \/ /\ state' = "VeniceLow"
                   /\ \E c \in Callers : pc[c] = "low_check" /\ pc'[c] = "store_context"
                \/ /\ state' = "UsingFallback"
                   /\ \E c \in Callers : pc[c] = "switch" /\ pc'[c] = "handoff"]_vars

\* an execute has failed at once because the state is Unavailable
C7_Witness ==
    \E c \in Callers :
        /\ state = "Unavailable"
        /\ pc[c] = "idle"
        /\ result[c] = Err(Provider(NoProvidersMsg))

\* C8: when send_request succeeds inside execute, the balance is read after
\* the call, the state becomes VeniceLow exactly when both the USD and the
\* Diem balance read are below venice_min_balance and is otherwise left as it
\* is, and execute returns the response.
C8_SuccessReturnsAndMarksLow ==
    [][\A c \in Callers :
          /\ via'[c] = "ok" /\ via[c] /= "ok" =>
                pc[c] = "body" /\ pc'[c] = "read_balance" /\ state' = state
          /\ via[c] = "ok" =>
                /\ pc[c] \in {"read_balance", "low_check", "store_context"}
                /\ fallback_calls'[c] = 0
          /\ pc[c] = "read_balance" /\ pc'[c] /= pc[c] =>
                /\ pc'[c] = "low_check"
                /\ balance_snapshot'[c] = balance
                /\ state' = state
          /\ pc[c] = "low_check" /\ pc'[c] /= pc[c] =>
                /\ pc'[c] = "store_context"
                /\ state' = IF /\ balance_snapshot[c].balance_usd < venice_min_balance
                               /\ balance_snapshot[c].balance_diem < venice_min_balance
                            THEN "VeniceLow"
                            ELSE state
          /\ pc[c] = "store_context" /\ pc'[c] /= pc[c] =>
                /\ pc'[c] = "idle"
                /\ result'[c] = Ok(VeniceResponse)
                /\ state' = state]_vars

\* a success is about to be returned, the state having become VeniceLow
C8_Witness ==
    \E c \in Callers :
        /\ pc[c] = "store_context"
        /\ via[c] = "ok"
        /\ state = "VeniceLow"

OtherErrors ==
    {r \in {Err(Http)} \cup
           {SendRequestResult(h.status, h.text, h.json_ok) : h \in HttpResponses} :
        r.kind = "Err" /\ ~IsExhaustedError(r) /\ ~IsRateLimited(r)}

\* C10: when send_request returns an error that is neither Exhausted nor
\* RateLimited, the orchestrator sleeps and calls the primary again while
\* retries remain; with none left execute returns that error, the fallback
\* has not been called for the request and the state is unchanged.
C10_OtherErrorRetriesThenSurfaces ==
    [][\A c \in Callers :
          /\ via'[c] = "error" /\ via[c] /= "error" =>
                /\ pc[c] \in {"http", "body"}
                /\ state' = state
                /\ fallback_calls[c] = 0 /\ fallback_calls'[c] = 0
                /\ IF retries[c] < max_retries
                   THEN /\ pc'[c] = "sleep"
                        /\ sleep_secs'[c] = ERROR_RETRY_SECS
                        /\ retries'[c] = retries[c] + 1
                        /\ request'[c] = request[c]
                   ELSE /\ pc'[c] = "idle"
                        /\ result'[c] \in OtherErrors
                        /\ pc[c] = "http" => result'[c] = Err(Http)
          /\ pc[c] = "sleep" /\ via[c] = "error" /\ pc'[c] /= pc[c] =>
                pc'[c] = "send_request" /\ venice_calls'[c] = retries[c]
          /\ via[c] = "error" => pc[c] \in {"sleep", "idle"}]_vars

\* execute has returned the 500 of the last call, the state still UsingVenice
C10_Witness ==
    \E c \in Callers :
        /\ pc[c] = "idle"
        /\ via[c] = "error"
        /\ result[c] = Err(Provider(StatusMsg(500, <<>>)))
        /\ state = "UsingVenice"

\* C11: an authentication failure (HTTP 401) from the primary is not
\* retried: the call that received it is the last primary call of the
\* request and execute returns the error at once.
C11_AuthNotRetried ==
    [][\A c \in Callers : \A h \in HttpResponses :
          h.status = 401 /\ pc[c] = "body" /\ ReadBodyResponse(c, h) =>
             /\ pc'[c] = "idle"
             /\ result'[c] = SendRequestResult(h.status, h.text, h.json_ok)]_vars

\* C12: an Exhausted error of the primary is never what execute returns: on
\* the exhaustion path execute returns what the fallback's execute returned,
\* or the unavailable error when the fallback is not available.
C12_ExhaustedNotSurfaced ==
    /\ [](\A c \in Callers :
             result[c] /= Err(Provider(ExhaustedMsg)) /\ ~IsExhaustedError(result[c]))
    /\ [][\A c \in Callers :
             /\ via'[c] = "exhausted" /\ via[c] /= "exhausted" =>
                   pc'[c] = "switch" /\ result'[c] = None
             /\ OnHandoffPath(c) /\ pc'[c] = "idle" =>
                   \/ /\ pc[c] = "fallback_execute"
                      /\ result'[c] \in FallbackResults
                   \/ /\ pc[c] = "execute_fallback"
                      /\ fallback_calls[c] = 0
                      /\ result'[c] = Err(Provider(FallbackUnavailableMsg))
             /\ OnHandoffPath(c) /\ pc'[c] /= "idle" => result'[c] = None]_vars

\* the primary is exhausted and the fallback is serving the request
C12_Witness ==
    \E c \in Callers :
        /\ pc[c] = "fallback_execute"
        /\ via[c] = "handoff"
        /\ credits_exhausted
        /\ result[c] = None

\* C13: in send_request and in send_streaming alike, a 429 whose body holds
\* "insufficient", "quota" or "balance" sets the exhausted flag and gives the
\* Exhausted error, and a 429 without them gives RateLimited with
\* retry_after = 60 seconds.
C13_Status429 ==
    [][\A h \in HttpResponses :
          h.status = 429 =>
             /\ stream_pc = "status" /\ StreamStatusResponse(h) =>
                   IF HasExhaustionMarker(h.text)
                   THEN credits_exhausted' /\ stream_result' = Err(Provider(ExhaustedMsg))
                   ELSE stream_result' = Err(RateLimited(RATE_LIMIT_RETRY_SECS))
             /\ \A c \in Callers :
                   pc[c] = "body" /\ ReadBodyResponse(c, h) =>
                      IF HasExhaustionMarker(h.text)
                      THEN credits_exhausted' /\ via'[c] = "exhausted"
                      ELSE /\ via'[c] = "rate_limit"
                           /\ pc'[c] = "sleep" => sleep_secs'[c] = RATE_LIMIT_RETRY_SECS]_vars

\* C14: a header scrape sets the exhausted flag exactly when both stored
\* balances, the present headers applied, are below their minima; with one
\* balance at or above its minimum the scrape leaves the flag as it was.
C14_ScrapeSetsFlagWhenBothLow ==
    [][(stream_pc = "http" /\ stream_pc' = "status")
          \/ (\E c \in Callers : pc[c] = "http" /\ pc'[c] = "body") =>
          /\ \E usd \in HeaderValues, diem \in HeaderValues :
                /\ balance'.balance_usd = IF usd = {} THEN balance.balance_usd
                                          ELSE CHOOSE v \in usd : TRUE
                /\ balance'.balance_diem = IF diem = {} THEN balance.balance_diem
                                           ELSE CHOOSE v \in diem : TRUE
          /\ credits_exhausted' =
                IF /\ balance'.balance_usd < min_balance_usd
                   /\ balance'.balance_diem < min_balance_diem
                THEN TRUE
                ELSE credits_exhausted]_vars

\* a scrape has stored one balance below its minimum and one at it, and the
\* flag is not set
C14_Witness ==
    /\ stream_pc = "status"
    /\ balance.balance_usd < min_balance_usd
    /\ balance.balance_diem = min_balance_diem
    /\ balance.last_updated
    /\ ~credits_exhausted

\* the positions of the Done and Error chunks in a sequence of chunks
Terminals(chunks) == {i \in 1..Len(chunks) : chunks[i].kind \in {"Done", "Error"}}

\* C15: a consumer that receives until the channel closes observes TextDelta
\* chunks followed by exactly one Done or Error chunk and nothing after it,
\* in every dialect and for every byte stream.
C15_TerminalUniqueness ==
    /\ [](\A i \in 1..Len(received) :
             /\ received[i].kind \in {"TextDelta", "Done", "Error"}
             /\ received[i].kind \in {"Done", "Error"} => i = Len(received))
    /\ [](rx_closed => Terminals(received) = {Len(received)} /\ received /= <<>>)
    /\ <>(rx_closed \/ ~rx_open)

\* an Anthropic stream was read to its close: two deltas, then the Done of
\* message_delta, the message_stop behind it never delivered
C15_Witness ==
    /\ rx_closed
    /\ sse_format = "Anthropic"
    /\ received = <<TextDelta("world"), TextDelta("world"),
                    Done(TokenUsageNew(0, 20))>>

\* C16: when the byte stream ends, no terminal frame having been parsed, the
\* producer emits exactly one Done with all-zero usage, and it is the last
\* chunk the consumer observes; an empty stream gives that Done alone.
C16_EndOfStreamDone ==
    /\ [][body = "open" /\ body' = "ended" =>
             /\ Terminals(received \o channel) = {}
             /\ sending' = {Done([prompt_tokens |-> 0, completion_tokens |-> 0,
                                  total_tokens |-> 0])}
             /\ producer_pc' = "send_last"]_vars
    /\ [][body = "ended" /\ producer_pc /= producer_pc' =>
             /\ producer_pc' = "done"
             /\ rx_open => channel' = channel \o <<Done(TokenUsageDefault)>>]_vars
    /\ [](body = "ended" => Cardinality(Terminals(received \o channel)) <= 1)
    /\ [](rx_closed /\ body = "ended" =>
             /\ received /= <<>>
             /\ received[Len(received)] = Done(TokenUsageDefault)
             /\ Terminals(received) = {Len(received)})
    /\ (body = "ended") ~> (producer_pc = "done")

\* a body that ended before it yielded anything: the consumer saw the one Done
C16_Witness ==
    /\ rx_closed
    /\ body = "ended"
    /\ body_count = 0
    /\ received = <<Done(TokenUsageDefault)>>

\* the buffer's first line carries a malformed JSON payload
MalformedFirst(text, format) ==
    /\ FindNewline(text) /= 0
    /\ Trim(FirstLine(text)) /= <<>>
    /\ Head(Trim(FirstLine(text))) /= ":"
    /\ IF format = "Ollama"
       THEN from_str(Trim(FirstLine(text))) = {}
       ELSE /\ Head(Trim(FirstLine(text))) = "data: "
            /\ format = "OpenAI" => Trim(Tail(Trim(FirstLine(text)))) /= <<"[DONE]">>
            /\ from_str(Tail(Trim(FirstLine(text)))) = {}

\* C17 as stated: in every dialect a line with a malformed JSON payload gives
\* an Error chunk, and the producer goes on parsing the lines after it.
C17_MalformedDoesNotStop ==
    [][/\ producer_pc = "lines" /\ producer_pc' /= "lines"
          /\ MalformedFirst(buffer, sse_format) =>
             sending' = {Error(JsonParseError)} /\ producer_pc' = "send"
       /\ producer_pc = "send" /\ producer_pc' /= "send"
          /\ sending = {Error(JsonParseError)} /\ rx_open =>
             producer_pc' = "lines"]_vars

\* C18: once the consumer has dropped the receiver nothing more is delivered,
\* the producer task exits at its next attempted send, whichever chunk it
\* carries, and the task terminates as the body yields further data or ends.
C18_CancellationStopsProducer ==
    /\ [][~rx_open =>
             /\ ~rx_open' /\ channel' = channel /\ received' = received
             /\ producer_pc \in {"send", "send_last"} /\ producer_pc' /= producer_pc =>
                   producer_pc' = "done"]_vars
    /\ (~rx_open) ~> (producer_pc = "done")

\* the consumer received one delta and dropped the receiver; the producer
\* has exited although the body is still open
C18_Witness ==
    /\ ~rx_open
    /\ producer_pc = "done"
    /\ body = "open"
    /\ sse_format = "OpenAI"
    /\ received = <<TextDelta("Hello")>>
    /\ channel = <<>>

\* C19: for every request and configuration, max_breakpoints = 0 and 1
\* included, optimize_request returns at most max_breakpoints breakpoints.
C19_BreakpointBudget ==
    \A o \in optimized : Len(o.breakpoints) <= config.max_breakpoints

\* C20: with auto_reorder set, in the context optimize_request returns every
\* Static item precedes every SemiStatic item, every SemiStatic item every
\* Dynamic item, and every Dynamic item every Volatile item.
C20_TierOrder ==
    \A o \in optimized :
        config.auto_reorder =>
            \A i, j \in 1..Len(o.request.context) :
                i < j => cache_priority(classify_context(o.request.context[i]))
                            <= cache_priority(classify_context(o.request.context[j]))

\* the items of a context that classify_context puts in a tier, in order
OfTier(context, tier) ==
    SelectSeq(context, LAMBDA item : classify_context(item) = tier)

\* C21: after optimize_request has reordered the context, the items of one
\* stability tier appear in the relative order they had in the input.
C21_ReorderIsStable ==
    \A o \in optimized :
        config.auto_reorder =>
            \A tier \in {"Static", "SemiStatic", "Dynamic", "Volatile"} :
                OfTier(o.request.context, tier) = OfTier(api_request.context, tier)

\* two semi-static files with a document between them were reordered: the
\* document moved to the front, the two files kept their order
C21_Witness ==
    /\ config.auto_reorder
    /\ Len(api_request.context) = 3
    /\ api_request.context[1].name = <<"src/", "types.rs">>
    /\ api_request.context[2].name = <<"docs/", "guide.md">>
    /\ api_request.context[3].name = <<"Cargo", ".toml">>
    /\ \E o \in optimized :
          /\ o.request.context[1].name = <<"docs/", "guide.md">>
          /\ o.request.context[2].name = <<"src/", "types.rs">>
          /\ o.request.context[3].name = <<"Cargo", ".toml">>

\* the breakpoint positions at or before the k-th context item
PositionsUpTo(breakpoints, k) ==
    {breakpoints[i] : i \in {j \in 1..Len(breakpoints) :
                                \/ breakpoints[j].kind = "AfterSystem"
                                \/ breakpoints[j].idx + 1 <= k}}

\* C22: two requests whose first k context items are the same and are
\* classified Static or SemiStatic get the same breakpoint positions up to
\* k, whatever follows the k-th item.
C22_CacheMonotone ==
    \A p \in previous : \A o \in optimized :
        \A k \in 0..Len(p.api_request.context) :
            /\ SubSeq(api_request.context, 1, k) = SubSeq(p.api_request.context, 1, k)
            /\ \A i \in 1..k :
                  classify_context(api_request.context[i]) \in {"Static", "SemiStatic"}
            => PositionsUpTo(o.breakpoints, k) = PositionsUpTo(p.optimized.breakpoints, k)

\* C23: static content (system prompt plus Static and SemiStatic items) of
\* exactly min_cache_tokens - 1 estimated tokens gives no breakpoint, and of
\* exactly min_cache_tokens gives exactly one, however the tokens are divided
\* between the system prompt and the items (stated for the configurations
\* whose cap allows a breakpoint and that reorder the context).
C23_ThresholdBoundary ==
    \A o \in optimized :
        config.max_breakpoints >= 1 /\ config.auto_reorder =>
            /\ o.static_tokens = config.min_cache_tokens - 1 => Len(o.breakpoints) = 0
            /\ o.static_tokens = config.min_cache_tokens => Len(o.breakpoints) = 1

\* C24: check(key, h) made directly after cache_content(key, h, n, permanent)
\* returns Hit with tokens = n, whatever the capacity and the table before,
\* also when the insert replaced the key's entry or evicted others.
C24_RoundTrip ==
    /\ [](\A c \in cache_status :
             c.op = "cache_content" =>
                /\ c.key \in DOMAIN entries
                /\ entries[c.key].content_hash = c.content_hash
                /\ entries[c.key].token_count = c.tokens)
    /\ [][\A c \in cache_status : \A d \in cache_status' :
             /\ c.op = "cache_content" /\ d.op = "check"
             /\ d.key = c.key /\ d.content_hash = c.content_hash
             => d.status = "Hit" /\ d.tokens = c.tokens /\ d.age >= 0]_vars

\* at capacity 4, key1 was cached again under the second content, which
\* replaced its entry and evicted key2; the check that followed hit
C24_Witness ==
    /\ max_entries = 4
    /\ DOMAIN entries = {"key1", "key3", "key4"}
    /\ observed.write = 1
    /\ cache_status = {[op |-> "check", key |-> "key1", content_hash |-> 22222,
                        status |-> "Hit", tokens |-> 100, age |-> 1]}

\* C25: check(key, h2) on a present key stored under another hash returns
\* Stale, records exactly one miss with the stored token count, and leaves
\* the entry as it was, so that a later check with the stored hash hits.
C25_StaleKeepsEntry ==
    /\ [][\A d \in cache_status' :
             /\ observed' /= observed /\ d.op = "check"
             /\ d.key \in DOMAIN entries
             /\ entries[d.key].content_hash /= d.content_hash
             => /\ d.status = "Stale"
                /\ entries' = entries
                /\ metrics'.cache_misses = metrics.cache_misses + 1
                /\ metrics'.uncached_tokens =
                      metrics.uncached_tokens + entries[d.key].token_count
                /\ metrics'.cache_hits = metrics.cache_hits
                /\ metrics'.cache_writes = metrics.cache_writes
                /\ metrics'.cached_tokens = metrics.cached_tokens
                /\ metrics'.estimated_savings = metrics.estimated_savings]_vars
    /\ [][\A c \in cache_status : \A d \in cache_status' :
             /\ c.status = "Stale" /\ observed' /= observed /\ d.op = "check"
             /\ d.key = c.key /\ d.content_hash = entries[c.key].content_hash
             => d.status = "Hit" /\ d.tokens = entries[c.key].token_count]_vars

\* a check of key1 under the other hash was Stale and counted its 5 tokens
\* as a miss; the check with the stored hash that followed hit
C25_Witness ==
    /\ observed.stale = 1 /\ observed.hit = 1
    /\ metrics.cache_misses = 1 /\ metrics.uncached_tokens = 5
    /\ cache_status = {[op |-> "check", key |-> "key1", content_hash |-> 11111,
                        status |-> "Hit", tokens |-> 5, age |-> 1]}

\* C26: after any sequence of cache_content and check calls, cache_hits is
\* the number of checks that hit, cache_misses the number of checks that
\* missed, cached_tokens the sum of the token counts of the hits, and
\* hit_rate = hits / (hits + misses), 0 when both are zero.
C26_MetricsCountChecks ==
    /\ metrics.cache_hits = observed.hit
    /\ metrics.cache_misses = observed.stale + observed.miss
    /\ metrics.cached_tokens = observed.hit_tokens
    /\ IF observed.hit + observed.stale + observed.miss = 0
       THEN metrics.hit_rate[1] = 0
       ELSE metrics.hit_rate[1] * (observed.hit + observed.stale + observed.miss)
               = observed.hit * metrics.hit_rate[2]

\* C27: at every point estimated_savings is 0.9 x cached_tokens, rounded
\* down to an integer, whatever the hits and their token counts.
C27_SavingsOfCachedTokens ==
    metrics.estimated_savings = (metrics.cached_tokens * 9) \div 10

\* C28: a cache_content on a table at capacity (len >= max_entries) evicts the
\* least-recently-accessed entries among those that are not permanent,
\* max_entries / 4 of them (all of them when there are fewer), then inserts:
\* every evicted entry was accessed before every non-permanent entry that is
\* kept, no permanent entry is evicted, and the other entries are untouched;
\* below capacity nothing is evicted. A check that hits makes its entry the
\* most recently accessed of the table.
C28_EvictsLeastRecent ==
    [][/\ observed'.write = observed.write + 1 =>
            \A c \in cache_status' :
                LET candidates == {k \in DOMAIN entries :
                                      entries[k].stability /= "Permanent"}
                    quarter == max_entries \div 4
                    count == IF Cardinality(candidates) < quarter
                             THEN Cardinality(candidates) ELSE quarter
                IN  /\ \A k \in DOMAIN entries' \ {c.key} :
                          k \in DOMAIN entries /\ entries'[k] = entries[k]
                    /\ IF Cardinality(DOMAIN entries) >= max_entries
                       THEN \E evicted \in SUBSET candidates :
                               /\ Cardinality(evicted) = count
                               /\ \A k \in evicted : \A j \in candidates \ evicted :
                                     entries[k].last_accessed < entries[j].last_accessed
                               /\ DOMAIN entries' = (DOMAIN entries \ evicted) \cup {c.key}
                       ELSE DOMAIN entries' = DOMAIN entries \cup {c.key}
       /\ observed'.hit = observed.hit + 1 =>
            \A c \in cache_status' :
                \A j \in DOMAIN entries' \ {c.key} :
                    entries'[j].last_accessed < entries'[c.key].last_accessed
      ]_vars

\* a table of four at capacity four: key1, the oldest entry, was hit and then
\* key3 was cached again, which evicted key2 and kept key1
C28_Witness ==
    /\ max_entries = 4
    /\ observed.hit = 1 /\ observed.write = 1
    /\ \E c \in cache_status : c.op = "cache_content" /\ c.key = "key3"
    /\ DOMAIN entries = {"key1", "key3", "key4"}
    /\ entries["key1"].stability = "Session" /\ entries["key1"].hit_count = 1
    /\ entries["key4"].stability = "Session"

\* the last n elements of a sequence
LastTurns(turns, n) ==
    IF Len(turns) <= n THEN turns ELSE SubSeq(turns, Len(turns) - n + 1, Len(turns))

\* C29: after every record_turn the history holds at most max_history turns
\* (none when max_history is 0), and they are the turns recorded last, in the
\* order they were recorded: the oldest are the ones dropped.
C29_HistoryBound ==
    /\ Len(history) <= max_history
    /\ history = LastTurns(recorded, max_history)

\* four turns were recorded in a session that keeps two: the first two are
\* dropped
C29_Witness ==
    /\ max_history = 2
    /\ Len(recorded) = 4
    /\ history = <<recorded[3], recorded[4]>>
    /\ recorded[1] /= recorded[3]

\* C30: every TokenUsage a constructor returns has total_tokens equal to the
\* sum of prompt_tokens and completion_tokens, as numbers: the low half of
\* the total is the low half of the sum and its high half holds the rest.
C30_TotalIsSum ==
    \A u \in token_usage :
        u.outcome = "built" =>
            /\ u.total_tokens.lo = (u.prompt_tokens.lo + u.completion_tokens.lo) % Half
            /\ u.total_tokens.hi = u.prompt_tokens.hi + u.completion_tokens.hi
                                      + ((u.prompt_tokens.lo + u.completion_tokens.lo) \div Half)

\* C31: with allow_venice_after_fallback = false, once the orchestrator has
\* started using the fallback no later execute calls the primary; in
\* particular, while the last result of some caller is one that
\* fallback.execute returned, an execute that starts is not routed to
\* send_request.
C31_NoPrimaryAfterFallback ==
    [][~allow_venice_after_fallback =>
          \A c \in Callers :
              (\E d \in Callers : result[d] \in FallbackResults) /\ Execute(c) =>
                  pc'[c] /= "send_request"]_vars

\* C32: with executes running concurrently, the state becomes VeniceLow only
\* from UsingVenice or VeniceLow: a primary call that succeeds after another
\* call has written UsingFallback or Unavailable does not overwrite it.
C32_LowOnlyFromPrimaryStates ==
    [][state' = "VeniceLow" => state \in {"UsingVenice", "VeniceLow"}]_vars

\* C33: over the lifetime of an orchestrator the exhaustion-driven transition
\* to UsingFallback with the handoff (execute_fallback_with_handoff) happens
\* at most once, under every interleaving; in particular no two executes are
\* on the exhaustion path, from the Exhausted arm to the fallback, at once.
C33_HandoffOnce == Cardinality({c \in Callers : OnHandoffPath(c)}) <= 1

\* C34: optimize_request emits an AfterContext(idx) breakpoint exactly when
\* the leading run of Static/SemiStatic items of the context it returns
\* holds at least min_cache_tokens estimated tokens and fewer than
\* max_breakpoints breakpoints were emitted before it; it emits at most one,
\* and idx is the index (from 0) of the last item of that run, the item
\* before the first Dynamic or Volatile one.
C34_ContextBreakpoint ==
    \A o \in optimized :
        LET context == o.request.context
            stable(i) == classify_context(context[i]) \in {"Static", "SemiStatic"}
            run == CHOOSE k \in 0..Len(context) :
                      /\ \A i \in 1..k : stable(i)
                      /\ k < Len(context) => ~stable(k + 1)
            emitted == {i \in 1..Len(o.breakpoints) : o.breakpoints[i].kind = "AfterContext"}
            before == {i \in 1..Len(o.breakpoints) : o.breakpoints[i].kind /= "AfterContext"}
        IN  /\ Cardinality(emitted) <= 1
            /\ emitted /= {} <=>
                   /\ ContextTokens(SubSeq(context, 1, run), config) >= config.min_cache_tokens
                   /\ Cardinality(before) < config.max_breakpoints
            /\ \A i \in emitted :
                   /\ o.breakpoints[i].idx = run - 1
                   /\ \A j \in before : j < i

\* a document that reaches the minimum alone, a semi-static file and a
\* dynamic file: the breakpoint is after the second item
C34_Witness ==
    \E o \in optimized :
        /\ Len(o.request.context) = 3
        /\ classify_context(o.request.context[1]) = "Static"
        /\ EstimateTokens(o.request.context[1].content, config) >= config.min_cache_tokens
        /\ classify_context(o.request.context[2]) = "SemiStatic"
        /\ classify_context(o.request.context[3]) = "Dynamic"
        /\ o.breakpoints = <<AfterContext(1)>>

\* C35: whenever execute moves the state to UsingFallback (the Exhausted
\* arm's write), the primary's credit tracker is exhausted: an error of the
\* primary that is not credit exhaustion, such as a 4xx or 5xx whatever its
\* body, does not cause the transition.
C35_SwitchOnlyWhenExhausted ==
    [][\A c \in Callers :
          pc[c] = "switch" /\ pc'[c] = "handoff" /\ state' = "UsingFallback" =>
              is_exhausted]_vars

\* C36: a response that carries no balance header leaves the stored balances
\* as they are and does not make is_exhausted() true: a tracker that was
\* never reported a balance and never got an exhaustion-marked 429 is not
\* exhausted.
C36_HeaderlessLeavesTracker ==
    [][\A c \in Callers :
          /\ pc[c] = "http" /\ pc'[c] = "body"
          /\ balance' = ScrapedBalance(balance, {}, {})
          /\ credits_exhausted' = ScrapedFlag(credits_exhausted, balance, {}, {})
          => /\ credits_exhausted' = credits_exhausted
             /\ balance'.exhausted = balance.exhausted
             /\ balance'.balance_usd = balance.balance_usd
             /\ balance'.balance_diem = balance.balance_diem]_vars

\* C37: the request optimize_request returns holds exactly the context items
\* of its argument, each as many times, under both settings of auto_reorder,
\* and in the argument's order when auto_reorder is off; the system prompt,
\* the messages and the task are those of the argument.
C37_ContextPreserved ==
    \A o \in optimized :
        /\ o.request.system = api_request.system
        /\ o.request.messages = api_request.messages
        /\ o.request.task = api_request.task
        /\ \A item \in ContextItems :
              Cardinality({i \in 1..Len(o.request.context) : o.request.context[i] = item})
                 = Cardinality({i \in 1..Len(api_request.context) :
                                   api_request.context[i] = item})
        /\ ~config.auto_reorder => o.request.context = api_request.context

\* C38: the number of entries of a tracker never exceeds max_entries, for
\* every max_entries >= 1 and every mix of permanent and other entries: a
\* call made on a table within the bound leaves it within the bound.
C38_CapacityBound ==
    [][Cardinality(DOMAIN entries) <= max_entries =>
          Cardinality(DOMAIN entries') <= max_entries]_vars

\* C39: concurrent calls of cache_content, check, summary, get_metrics,
\* reset_metrics, invalidate and clear on one CacheTracker never deadlock: no
\* thread acquires the entries lock while it holds the metrics lock, so when
\* one thread holds both it took entries first; while a call is in progress
\* some thread can take a step; and every call eventually returns.
C39_NoDeadlock ==
    /\ [][\A t \in Threads :
             entries_lock' = {t} /\ entries_lock /= {t} => metrics_lock /= {t}]_vars
    /\ [](\A t \in Threads :
             entries_lock = {t} /\ metrics_lock = {t} =>
                 thread_pc[t] \in {"unlock_metrics", "unlock_entries"})
    /\ []((\E t \in Threads : thread_pc[t] /= "idle") =>
             \E t \in Threads :
                 \/ thread_pc[t] = "lock_entries" /\ entries_lock = {}
                 \/ thread_pc[t] = "lock_metrics" /\ metrics_lock = {}
                 \/ thread_pc[t] \in {"unlock_metrics", "unlock_entries"})
    /\ \A t \in Threads : (thread_pc[t] /= "idle") ~> (thread_pc[t] = "idle")

\* one thread holds both locks while the other waits for one of them
C39_Witness ==
    \E t \in Threads : \E u \in Threads \ {t} :
        /\ entries_lock = {t}
        /\ metrics_lock = {t}
        /\ thread_pc[u] \in {"lock_entries", "lock_metrics"}


\* C40: a caller's step on a fallback path (from execute in UsingFallback, from
\* the exhaustion handoff, from the rate-limit arm) changes neither
\* request_count nor session_context. request_count changes only by the + 1
\* of the Ok arm, which a successful primary response passes once;
\* session_context changes only by the append of that response's content, when
\* preserve_context is on, as the Ok arm returns; it is only ever extended.
C40_FallbackLeavesCounters ==
    [][/\ \A c \in Callers :
             /\ pc'[c] /= pc[c]
             /\ \/ pc[c] \in {"switch", "handoff", "execute_fallback", "fallback_execute"}
                \/ pc'[c] = "execute_fallback"
             => /\ request_count' = request_count
                /\ session_context' = session_context
       /\ request_count' /= request_count =>
             /\ request_count' = request_count + 1
             /\ \E c \in Callers : pc[c] = "low_check" /\ pc'[c] = "store_context"
       /\ session_context' /= session_context =>
             /\ preserve_context
             /\ session_context' = Append(session_context, VeniceResponse.content)
             /\ \E c \in Callers :
                   /\ pc[c] = "store_context" /\ pc'[c] = "idle"
                   /\ result'[c] = Ok(VeniceResponse)
       /\ \A c \in Callers :
             /\ pc[c] = "low_check" /\ pc'[c] /= pc[c] =>
                   pc'[c] = "store_context" /\ request_count' = request_count + 1
             /\ pc[c] = "store_context" /\ pc'[c] /= pc[c] =>
                   /\ pc'[c] = "idle"
                   /\ preserve_context => Len(session_context') = Len(session_context) + 1
             /\ pc'[c] = "low_check" /\ pc[c] /= pc'[c] => pc[c] = "read_balance"
             /\ pc'[c] = "store_context" /\ pc[c] /= pc'[c] => pc[c] = "low_check"
             /\ result'[c] = Ok(VeniceResponse) /\ result[c] /= result'[c] =>
                   pc[c] = "store_context"
       /\ Len(session_context) <= Len(session_context')
       /\ SubSeq(session_context', 1, Len(session_context)) = session_context]_vars

\* a call is being served by the fallback after a primary response was counted
\* and stored
C40_Witness ==
    \E c \in Callers :
        /\ pc[c] = "fallback_execute"
        /\ request_count >= 1
        /\ session_context /= <<>>

====
